---- MODULE Spec2Model ----
(***************************************************************************)
(* Streaming compute core of the live-data engine:                         *)
(*   - CandleAggregator  (dataflow/candle_aggregation/aggregator.py)       *)
(*   - DAGBuilder        (engine/dag/builder.py)                           *)
(*   - DAGExecutor       (engine/scheduler/executor.py)                    *)
(*   - ConfigLoader      (engine/config/loader.py)                         *)
(*   - SymbolCoordinator (engine/runtime/coordinator.py)                   *)
(*   - Candle, Topics    (schemas/market_data.py, adapters/nats_client.py) *)
(*   - CandleScienceFilterSettingsNode (indicators/.../node.py)            *)
(*   - TimescaleDBSink   (dataflow/persistence/sink.py)                    *)
(* Each component has its own specification (SpecAgg, SpecAggFaults,       *)
(* SpecDag, SpecDagReset, SpecLoader, SpecCoord, SpecCandle, SpecTopics,   *)
(* SpecNode, SpecSink); the variables of the other components are held at  *)
(* their idle values.                                                      *)
(***************************************************************************)
EXTENDS Integers, Sequences, FiniteSets, TLC

VARIABLES
    \* ---- CandleAggregator ----
    builders,     \* self._builders[symbol]: dict timeframe -> CandleBuilder
    folded,       \* history: the ticks add_tick folded into each current builder
    lock,         \* self._lock: "free", or "stop" while stop() holds it across awaits
    now,          \* wall clock read by datetime.now()
    handled,      \* history: the timestamps of the ticks _handle_tick has processed, in order
    sweep,        \* self._check_task: "running" | "cancelled" | "crashed"
    sweepQueue,   \* candles_to_publish not yet published by the sweep
    stopPc,       \* position of stop(): "idle" | "cancelled" | "flushing" | "done" | "raised"
    stopIdx,      \* index of the timeframe stop()'s flush loop looks at next
    published,    \* history: candles handed to nats.publish_json, in order
    malformed,    \* history: Len(handled) at the arrival of each malformed payload
    \* ---- DAGBuilder ----
    nodeDefs,     \* node_defs: node id -> inputs (list of InputRef) of its NodeDef
    dagPc,        \* "config" | "built" | "rejected"
    buildError,   \* the ValueError build() raised: [kind, path]
    adjacency,    \* self.adjacency: node id -> list of the nodes it depends on
    reverse_deps, \* self.reverse_deps: node id -> set of the nodes that depend on it
    topo_order,   \* self.topo_order
    \* ---- DAGExecutor ----
    node_states,  \* self.node_states: node id -> state (number of compute calls seen)
    node_outputs, \* self.node_outputs: dict node id -> output mapping
    execPc,       \* "idle" | "running" (inside execute_event)
    event,        \* the event execute_event is handling (or handled last)
    pending,      \* the rest of exec_order
    calls,        \* history: the compute calls of the current event, in order
    nEvents,      \* number of execute_event calls so far
    \* ---- a second DAGExecutor over the same DAG, fed the same events ----
    replica_states,   \* its node_states
    replica_outputs,  \* its node_outputs
    replica_pending,  \* the rest of its exec_order
    replica_calls,    \* history: its compute calls of the current event, in order
    \* ---- ConfigLoader ----
    configs,      \* the PipelineConfigs parsed from the YAML files, in glob order
    loadPc,       \* "config" | "loaded" | "failed"
    loadError,    \* the ValueError load_pipeline raised: [kind, id] and its message parts
    node_defs,    \* the NodeDef list load_pipeline returned
    nodes,        \* DAGBuilder(node_defs).nodes: dict id -> NodeDef
    \* ---- SymbolCoordinator ----
    coordPc,      \* "new" | "failed" (__init__ raised) | "ready" | "starting" | "started"
    initError,    \* the kind of the exception __init__ raised, "none" otherwise
    subscriptions,\* the subscriptions made on the bus: set of [topic, handler]
    running,      \* the handler that holds the event loop's thread, "none" between tasks
    hpc,          \* per subscription, its callback: "idle" | "exec" | "publish"
    hevent,       \* per callback: the event it passed to execute_event
    horder,       \* per callback: exec_order of its execute_event
    hpending,     \* per callback: the rest of exec_order
    hpos,         \* per callback: position in the dict _publish_outputs iterates
    heap,         \* the dict objects execute_event bound to node_outputs, by event number
    msgs,         \* history: the messages delivered to the callbacks, in order
    sent,         \* history: the publish_json calls of _publish_outputs, in order
    produced,     \* history: node_outputs at the end of each execute_event
    \* ---- Candle (schemas/market_data.py) ----
    original,     \* a Candle satisfying the data-model invariants
    decoded,      \* None, or the outcomes of decoding what the candle encodes to
    \* ---- Topics (dataflow/adapters/nats_client.py) ----
    name,         \* a symbol handed to Topics._sanitize
    sanitized,    \* None, or <<_sanitize(name), _sanitize(_sanitize(name))>>
    \* ---- CandleScienceFilterSettingsNode ----
    buffer_size,  \* self.buffer_size
    buffer,       \* state["buffer"]: deque(maxlen=buffer_size) of Candles
    buffer_filled,\* state["buffer_filled"]
    received,     \* history: the candles Candle.from_dict accepted, in arrival order
    returned,     \* history: per compute call, [input, output] of the call
    \* ---- TimescaleDBSink (dataflow/persistence/sink.py) ----
    batch_size,   \* self.batch_size
    sink_lock,    \* self._lock: "free", or the task that holds it
    sink_buffer,  \* self._tick_buffer and self._candle_buffer, by kind
    sink_pc,      \* per task: where it stands
    sink_msg,     \* per callback: the record it parsed and has yet to append
    sink_batch,   \* per task: the local list of the flush it is in
    delivered,    \* number of messages delivered to the callbacks so far
    written,      \* history: the records the database took
    failed        \* history: the records of the batches whose write raised

aggVars == <<builders, folded, lock, now, handled, sweep, sweepQueue,
             stopPc, stopIdx, published, malformed>>

dagVars == <<nodeDefs, dagPc, buildError, adjacency, reverse_deps, topo_order>>

replicaVars == <<replica_states, replica_outputs, replica_pending, replica_calls>>

execVars == <<node_states, node_outputs, execPc, event, pending, calls, nEvents,
              replicaVars>>

loaderVars == <<configs, loadPc, loadError, node_defs, nodes>>

coordVars == <<coordPc, initError, subscriptions, running, hpc, hevent, horder,
               hpending, hpos, heap, msgs, sent, produced>>

candleVars == <<original, decoded>>

topicVars == <<name, sanitized>>

nodeVars == <<buffer_size, buffer, buffer_filled, received, returned>>

\* the value types, the reference node and the sink, which no step of the
\* components above touches
sinkVars == <<batch_size, sink_lock, sink_buffer, sink_pc, sink_msg, sink_batch,
              delivered, written, failed>>

leafVars == <<candleVars, topicVars, nodeVars, sinkVars>>

vars == <<aggVars, dagVars, execVars, loaderVars, coordVars, leafVars>>

\* what an aggregator step leaves alone, what a DAG step leaves alone, and
\* what a loader step leaves alone
notAgg == <<dagVars, execVars, loaderVars, coordVars, leafVars>>
notDag == <<aggVars, loaderVars, coordVars, leafVars>>
notLoader == <<aggVars, dagVars, execVars, coordVars, leafVars>>
notLeaf == <<aggVars, dagVars, execVars, loaderVars, coordVars>>

-----------------------------------------------------------------------------
(* Optional values: None is the empty sequence, Some(x) the singleton.     *)
None == << >>
Some(x) == <<x>>
Val(o) == o[1]

Max(a, b) == IF a >= b THEN a ELSE b
Min(a, b) == IF a <= b THEN a ELSE b

Range(s) == {s[i] : i \in DOMAIN s}

EmptyDict == [k \in {} |-> {}]

-----------------------------------------------------------------------------
(* Bounds and sampled inputs of the aggregator model.                      *)
MaxTicks == 3

Symbol == "ES"
TickInstants == {5, 30, 65, 305}
NowInstants == {0, 130, 310}
Prices == {99, 100, 101}
Volumes == {None, Some(2)}

\* TIMEFRAMES: timeframe tag -> width in seconds
TIMEFRAMES == [tf \in {"1m", "5m", "15m", "30m", "1h", "4h", "1d"} |->
                 CASE tf = "1m" -> 60
                   [] tf = "5m" -> 300
                   [] tf = "15m" -> 900
                   [] tf = "30m" -> 1800
                   [] tf = "1h" -> 3600
                   [] tf = "4h" -> 14400
                   [] tf = "1d" -> 86400]

\* self.timeframes as configured for this aggregator
timeframes == <<"1m", "5m">>

\* A datetime: epoch seconds plus whether it carries a tzinfo.
DateTime(t, aware) == [t |-> t, aware |-> aware]

Ticks == [symbol : {Symbol}, timestamp : {DateTime(t, a) : t \in TickInstants, a \in BOOLEAN},
          price : Prices, volume : Volumes]

\* the ticks of the runs with malformed payloads and failing publishes
FaultTicks == [symbol : {Symbol},
               timestamp : {DateTime(t, a) : t \in TickInstants, a \in BOOLEAN},
               price : {100}, volume : {None}]

\* datetime.isoformat(): the text of a datetime, as the instant and the
\* presence of a UTC offset it spells
isoformat(dt) == [t |-> dt.t, offset |-> dt.aware]

\* datetime.fromisoformat(text.replace("Z", "+00:00"))
fromisoformat(text) == DateTime(text.t, text.offset)

\* Tick.to_dict (bid and ask left out: the aggregator does not read them)
Tick_to_dict(tick) ==
    [symbol |-> tick.symbol, timestamp |-> isoformat(tick.timestamp),
     price |-> tick.price, volume |-> tick.volume]

\* Tick.from_dict: KeyError for a missing symbol, timestamp or price
Tick_from_dict(data) ==
    IF {"timestamp", "symbol", "price"} \subseteq DOMAIN data
    THEN [raised |-> FALSE,
          tick |-> [symbol |-> data.symbol, timestamp |-> fromisoformat(data.timestamp),
                    price |-> data.price,
                    volume |-> IF "volume" \in DOMAIN data THEN data.volume ELSE None]]
    ELSE [raised |-> TRUE, tick |-> None]

\* Tick.from_dict that takes price 0 for a payload without price
Tick_from_json_default_price(msg) ==
    IF ~msg.decodable THEN [raised |-> TRUE, tick |-> None]
    ELSE IF "price" \in DOMAIN msg.data THEN Tick_from_dict(msg.data)
    ELSE Tick_from_dict([k \in DOMAIN msg.data \cup {"price"} |->
                            IF k = "price" THEN 0 ELSE msg.data[k]])

\* Tick.from_json(msg.data.decode()): json.loads raises for bytes that are no JSON
Tick_from_json(msg) ==
    IF ~msg.decodable THEN [raised |-> TRUE, tick |-> None]
    ELSE Tick_from_dict(msg.data)

\* a dict without one of its keys
Without(d, k) == [x \in DOMAIN d \ {k} |-> d[x]]

\* NATS messages on ticks.raw.*: the payload, and whether the sender left
\* it undecodable or without a required field
WellFormedMessages(ticks) ==
    {[decodable |-> TRUE, data |-> Tick_to_dict(t), malformed |-> FALSE] : t \in ticks}

MalformedMessages ==
    {[decodable |-> FALSE, data |-> EmptyDict, malformed |-> TRUE]}
    \cup {[decodable |-> TRUE, data |-> Without(Tick_to_dict(t), k), malformed |-> TRUE] :
             t \in FaultTicks, k \in {"symbol", "timestamp", "price"}}

Messages == WellFormedMessages(Ticks)

FaultMessages == WellFormedMessages(FaultTicks) \cup MalformedMessages

\* what nats.publish_json does with a candle: "ok", or "raise" (not connected)
PublishOutcomes == {"ok"}

FaultOutcomes == {"ok", "raise"}

-----------------------------------------------------------------------------
(* CandleBuilder                                                           *)

CandleBuilder(symbol, timeframe, start_time) ==
    [symbol |-> symbol, timeframe |-> timeframe, start_time |-> start_time,
     open |-> None, high |-> None, low |-> None, close |-> None,
     volume |-> 0, tick_count |-> 0]

\* add_tick without the running maximum/minimum: high and low stay at the first price
add_tick_first_extremes(b, tick) ==
    LET price  == tick.price
        volume == IF tick.volume = None THEN 0 ELSE Val(tick.volume)
        b1     == IF b.open = None
                  THEN [b EXCEPT !.open = Some(price), !.high = Some(price),
                                 !.low = Some(price)]
                  ELSE b
    IN [b1 EXCEPT !.close = Some(price),
                  !.volume = @ + volume,
                  !.tick_count = @ + 1]

add_tick(b, tick) ==
    LET price  == tick.price
        volume == IF tick.volume = None THEN 0 ELSE Val(tick.volume)
        b1     == IF b.open = None
                  THEN [b EXCEPT !.open = Some(price), !.high = Some(price),
                                 !.low = Some(price)]
                  ELSE b
    IN [b1 EXCEPT !.high = Some(Max(Val(b1.high), price)),
                  !.low = Some(Min(Val(b1.low), price)),
                  !.close = Some(price),
                  !.volume = @ + volume,
                  !.tick_count = @ + 1]

is_empty(b) == b.open = None

\* build() with high and low exchanged
build_swapped_extremes(b) ==
    [symbol |-> b.symbol, timestamp |-> b.start_time, timeframe |-> b.timeframe,
     open |-> Val(b.open), high |-> Val(b.low), low |-> Val(b.high),
     close |-> Val(b.close), volume |-> b.volume, tick_count |-> b.tick_count]

\* build() of a non-empty builder (an empty one raises ValueError; every caller
\* checks is_empty first)
build(b) ==
    [symbol |-> b.symbol, timestamp |-> b.start_time, timeframe |-> b.timeframe,
     open |-> Val(b.open), high |-> Val(b.high), low |-> Val(b.low),
     close |-> Val(b.close), volume |-> b.volume, tick_count |-> b.tick_count]

-----------------------------------------------------------------------------
(* CandleAggregator                                                        *)

\* _get_candle_start without the alignment: the timestamp itself
_get_candle_start_unaligned(timestamp, timeframe) == timestamp

\* _get_candle_start: align to the timeframe boundary, keep the tzinfo
_get_candle_start(timestamp, timeframe) ==
    LET seconds == TIMEFRAMES[timeframe]
    IN DateTime((timestamp.t \div seconds) * seconds, timestamp.aware)

\* _get_or_create_builder: <<builder, is_new>>; datetimes of different
\* awareness never compare equal
_get_or_create_builder(bs, timeframe, timestamp) ==
    LET candle_start == _get_candle_start(timestamp, timeframe)
    IN IF timeframe \notin DOMAIN bs
       THEN <<CandleBuilder(Symbol, timeframe, candle_start), TRUE>>
       ELSE IF bs[timeframe].start_time # candle_start
            THEN <<CandleBuilder(Symbol, timeframe, candle_start), TRUE>>
            ELSE <<bs[timeframe], FALSE>>

TfSet == Range(timeframes)

\* the body of _handle_tick under the lock: every configured timeframe gets the tick
TickBuilders(bs, tick) ==
    [tf \in TfSet |-> add_tick(_get_or_create_builder(bs, tf, tick.timestamp)[1], tick)]

TickFolded(bs, fl, tick) ==
    [tf \in TfSet |->
        IF _get_or_create_builder(bs, tf, tick.timestamp)[2]
        THEN <<tick>>
        ELSE Append(fl[tf], tick)]

LastTickTime == IF handled = << >> THEN -1 ELSE handled[Len(handled)]

\* _handle_tick: a payload that does not parse is dropped. The feed delivers
\* ticks with strictly increasing timestamps; a handler that finds the lock held
\* by stop() waits, and after stop() has returned the bus connection is closed.
_handle_tick(msg) ==
    /\ lock = "free"
    /\ stopPc \notin {"done", "raised"}
    /\ Len(handled) + Len(malformed) < MaxTicks
    /\ LET r == Tick_from_json(msg) IN
         IF r.raised
         THEN UNCHANGED <<builders, folded, handled>>
         ELSE /\ r.tick.timestamp.t > LastTickTime
              /\ builders' = TickBuilders(builders, r.tick)
              /\ folded' = TickFolded(builders, folded, r.tick)
              /\ handled' = Append(handled, r.tick.timestamp.t)
    /\ malformed' = IF msg.malformed THEN Append(malformed, Len(handled)) ELSE malformed
    /\ UNCHANGED <<lock, now, sweep, sweepQueue, stopPc, stopIdx, published>>
    /\ UNCHANGED notAgg

\* One pass of the sweep's scan over the builders, from timeframe index i on.
\* Comparing the naive datetime.now() with an aware candle_end raises TypeError.
RECURSIVE SweepScan(_, _, _, _)
SweepScan(i, bs, fl, q) ==
    IF i > Len(timeframes) THEN [builders |-> bs, folded |-> fl, queue |-> q, raised |-> FALSE]
    ELSE LET tf == timeframes[i] IN
         IF tf \notin DOMAIN bs THEN SweepScan(i + 1, bs, fl, q)
         ELSE LET builder == bs[tf] IN
              IF is_empty(builder) THEN SweepScan(i + 1, bs, fl, q)
              ELSE IF builder.start_time.aware
                   THEN [builders |-> bs, folded |-> fl, queue |-> q, raised |-> TRUE]
                   ELSE LET candle_end == builder.start_time.t + TIMEFRAMES[tf] IN
                        IF now >= candle_end
                        THEN SweepScan(i + 1,
                                 [bs EXCEPT ![tf] = CandleBuilder(Symbol, tf,
                                       _get_candle_start(DateTime(now, FALSE), tf))],
                                 [fl EXCEPT ![tf] = << >>],
                                 Append(q, [candle |-> build(builder), ticks |-> fl[tf]]))
                        ELSE SweepScan(i + 1, bs, fl, q)

\* _check_and_publish_candles: one wake-up, the scan under the lock
SweepWake ==
    /\ sweep = "running"
    /\ sweepQueue = << >>
    /\ lock = "free"
    /\ LET r == SweepScan(1, builders, folded, << >>) IN
         /\ builders' = r.builders
         /\ folded' = r.folded
         /\ IF r.raised
            THEN sweep' = "crashed" /\ sweepQueue' = << >>
            ELSE sweep' = sweep /\ sweepQueue' = r.queue
    /\ UNCHANGED <<lock, now, handled, stopPc, stopIdx, published, malformed>>
    /\ UNCHANGED notAgg

\* _publish_candle: the candle is handed to nats.publish_json once; a failure
\* is caught and logged. The result is the entry of the publish history.
_publish_candle(candle, ticks, path, outcome) ==
    [candle |-> candle, ticks |-> ticks, path |-> path, locked |-> lock # "free",
     failed |-> outcome = "raise"]

\* the publish loop of the sweep with a failed candle left in the list
SweepPublish_retry(outcome) ==
    /\ sweep = "running"
    /\ sweepQueue # << >>
    /\ published' = Append(published, _publish_candle(Head(sweepQueue).candle,
                                                      Head(sweepQueue).ticks, "sweep", outcome))
    /\ sweepQueue' = IF outcome = "raise" THEN sweepQueue ELSE Tail(sweepQueue)
    /\ UNCHANGED <<builders, folded, lock, now, handled, sweep, stopPc, stopIdx, malformed>>
    /\ UNCHANGED notAgg

\* _check_and_publish_candles: await self._publish_candle(candle) for the next candle
SweepPublish(outcome) ==
    /\ sweep = "running"
    /\ sweepQueue # << >>
    /\ published' = Append(published, _publish_candle(Head(sweepQueue).candle,
                                                      Head(sweepQueue).ticks, "sweep", outcome))
    /\ sweepQueue' = Tail(sweepQueue)
    /\ UNCHANGED <<builders, folded, lock, now, handled, sweep, stopPc, stopIdx, malformed>>
    /\ UNCHANGED notAgg

\* stop(): cancel the sweep task and await it. A task that died with TypeError
\* re-raises it here and stop() is left before the flush.
StopCancel ==
    /\ stopPc = "idle"
    /\ IF sweep = "crashed"
       THEN stopPc' = "raised" /\ UNCHANGED <<sweep, sweepQueue>>
       ELSE stopPc' = "cancelled" /\ sweep' = "cancelled" /\ sweepQueue' = << >>
    /\ UNCHANGED <<builders, folded, lock, now, handled, stopIdx, published, malformed>>
    /\ UNCHANGED notAgg

\* stop(): async with self._lock
StopLock ==
    /\ stopPc = "cancelled"
    /\ lock = "free"
    /\ lock' = "stop"
    /\ stopPc' = "flushing"
    /\ stopIdx' = 1
    /\ UNCHANGED <<builders, folded, now, handled, sweep, sweepQueue, published, malformed>>
    /\ UNCHANGED notAgg

\* stop(): one iteration of the flush loop, or leaving the lock after the last one
StopFlush(outcome) ==
    /\ stopPc = "flushing"
    /\ IF stopIdx > Len(timeframes)
       THEN /\ lock' = "free"
            /\ stopPc' = "done"
            /\ UNCHANGED <<stopIdx, published>>
       ELSE /\ stopIdx' = stopIdx + 1
            /\ LET tf == timeframes[stopIdx] IN
                 IF tf \in DOMAIN builders /\ ~is_empty(builders[tf])
                 THEN published' = Append(published,
                          _publish_candle(build(builders[tf]), folded[tf], "stop", outcome))
                 ELSE UNCHANGED published
            /\ UNCHANGED <<lock, stopPc>>
    /\ UNCHANGED <<builders, folded, now, handled, sweep, sweepQueue, malformed>>
    /\ UNCHANGED notAgg

\* the wall clock moves on
AdvanceClock ==
    /\ \E n \in NowInstants : n > now /\ now' = n
    /\ UNCHANGED <<builders, folded, lock, handled, sweep, sweepQueue,
                   stopPc, stopIdx, published, malformed>>
    /\ UNCHANGED notAgg

AggInit ==
    /\ builders = EmptyDict
    /\ folded = EmptyDict
    /\ lock = "free"
    /\ now = 0
    /\ handled = << >>
    /\ sweep = "running"
    /\ sweepQueue = << >>
    /\ stopPc = "idle"
    /\ stopIdx = 1
    /\ published = << >>
    /\ malformed = << >>

AggNext ==
    \/ \E msg \in Messages : _handle_tick(msg)
    \/ SweepWake
    \/ \E outcome \in PublishOutcomes : SweepPublish(outcome)
    \/ StopCancel
    \/ StopLock
    \/ \E outcome \in PublishOutcomes : StopFlush(outcome)
    \/ AdvanceClock

\* the same steps with malformed payloads and failing publishes among the inputs
AggFaultNext ==
    \/ \E msg \in FaultMessages : _handle_tick(msg)
    \/ SweepWake
    \/ \E outcome \in FaultOutcomes : SweepPublish(outcome)
    \/ StopCancel
    \/ StopLock
    \/ \E outcome \in FaultOutcomes : StopFlush(outcome)
    \/ AdvanceClock


-----------------------------------------------------------------------------
(* NodeDef graphs                                                          *)

MaxRefs == 3
MaxEvents == 2

\* the NodeDefs of the pipeline, in the order of the node_defs list (the
\* insertion order of the self.nodes dict)
NodeOrder == <<"a", "b", "c">>
NodeIds == Range(NodeOrder)
UnknownId == "zz"

\* InputType
TICK == "tick"
CANDLE == "candle"
INDICATOR == "indicator"

InputRef(type, source, field) == [type |-> type, source |-> source, field |-> field]

\* the inputs a NodeDef may get: the whole output of a and of b, the field
\* "value" of c's output, an indicator that is no node, ticks and 1m candles
Refs == {InputRef(TICK, "", None), InputRef(CANDLE, "1m", None),
         InputRef(INDICATOR, UnknownId, None),
         InputRef(INDICATOR, "a", None), InputRef(INDICATOR, "b", None),
         InputRef(INDICATOR, "c", Some("value"))}

TotalRefs(defs) == LET RECURSIVE Sum(_)
                       Sum(i) == IF i > Len(NodeOrder) THEN 0
                                 ELSE Len(defs[NodeOrder[i]]) + Sum(i + 1)
                   IN Sum(1)

\* a NodeDef gets one more InputRef
AddInput(n, ref) ==
    /\ dagPc = "config"
    /\ TotalRefs(nodeDefs) < MaxRefs
    /\ nodeDefs' = [nodeDefs EXCEPT ![n] = Append(@, ref)]
    /\ UNCHANGED <<dagPc, buildError, adjacency, reverse_deps, topo_order>>
    /\ UNCHANGED execVars
    /\ UNCHANGED notDag

-----------------------------------------------------------------------------
(* DAGBuilder                                                              *)

NoError == [kind |-> "none", path |-> << >>]

\* dict.get(key, default)
Get(d, k, default) == IF k \in DOMAIN d THEN d[k] ELSE default

\* dict[key] = value
Put(d, k, v) == [x \in DOMAIN d \cup {k} |-> IF x = k THEN v ELSE d[x]]

\* the deps list of one node: the sources of its INDICATOR inputs, in order
DepsOf(inputs) ==
    LET ind == SelectSeq(inputs, LAMBDA inp : inp.type = INDICATOR)
    IN [i \in 1..Len(ind) |-> ind[i].source]

HasUnknownSource(inputs) ==
    \E i \in DOMAIN inputs : inputs[i].type = INDICATOR /\ inputs[i].source \notin NodeIds

RECURSIVE AddReverse(_, _, _, _)
AddReverse(rev, deps, i, node_id) ==
    IF i > Len(deps) THEN rev
    ELSE AddReverse(Put(rev, deps[i], Get(rev, deps[i], {}) \cup {node_id}), deps, i + 1, node_id)

\* _build_adjacency that skips an unknown source instead of raising
RECURSIVE BuildAdjacencyFrom_skip_unknown(_, _, _, _)
BuildAdjacencyFrom_skip_unknown(defs, i, adj, rev) ==
    IF i > Len(NodeOrder) THEN [ok |-> TRUE, adjacency |-> adj, reverse_deps |-> rev]
    ELSE LET node_id == NodeOrder[i]
             deps == SelectSeq(DepsOf(defs[node_id]), LAMBDA d : d \in NodeIds)
         IN BuildAdjacencyFrom_skip_unknown(defs, i + 1, Put(adj, node_id, deps),
                                            AddReverse(rev, deps, 1, node_id))

\* _build_adjacency from node index i on; stops at the first unknown source
RECURSIVE BuildAdjacencyFrom(_, _, _, _)
BuildAdjacencyFrom(defs, i, adj, rev) ==
    IF i > Len(NodeOrder) THEN [ok |-> TRUE, adjacency |-> adj, reverse_deps |-> rev]
    ELSE LET node_id == NodeOrder[i]
             deps == DepsOf(defs[node_id])
         IN IF HasUnknownSource(defs[node_id])
            THEN [ok |-> FALSE, adjacency |-> adj, reverse_deps |-> rev]
            ELSE BuildAdjacencyFrom(defs, i + 1, Put(adj, node_id, deps),
                                    AddReverse(rev, deps, 1, node_id))

_build_adjacency(defs) == BuildAdjacencyFrom(defs, 1, EmptyDict, EmptyDict)

IndexOf(seq, x) == CHOOSE i \in DOMAIN seq : seq[i] = x /\ \A j \in 1..(i - 1) : seq[j] # x

\* the cycle of the ValueError with the whole DFS path, lead-in included
CyclePath_whole(path, dep) == path \o <<dep>>

\* cycle = path[cycle_start:] + [dep], cycle_start = path.index(dep)
CyclePath(path, dep) == SubSeq(path, IndexOf(path, dep), Len(path)) \o <<dep>>

\* dfs of _validate_no_cycles: the result carries visited, rec_stack and the
\* cycle raised (<< >> when none)
RECURSIVE dfs(_, _, _, _, _)
RECURSIVE dfsDeps(_, _, _, _, _, _)
dfs(adj, node_id, path0, visited, rec_stack) ==
    dfsDeps(adj, node_id, 1, Append(path0, node_id),
            visited \cup {node_id}, rec_stack \cup {node_id})

dfsDeps(adj, node_id, i, path, visited, rec_stack) ==
    LET deps == Get(adj, node_id, << >>) IN
    IF i > Len(deps)
    THEN [visited |-> visited, rec_stack |-> rec_stack \ {node_id}, cycle |-> << >>]
    ELSE LET dep == deps[i] IN
         IF dep \notin visited
         THEN LET r == dfs(adj, dep, path, visited, rec_stack) IN
              IF r.cycle # << >> THEN r
              ELSE dfsDeps(adj, node_id, i + 1, path, r.visited, r.rec_stack)
         ELSE IF dep \in rec_stack
              THEN [visited |-> visited, rec_stack |-> rec_stack,
                    cycle |-> CyclePath(path, dep)]
              ELSE dfsDeps(adj, node_id, i + 1, path, visited, rec_stack)

RECURSIVE ValidateFrom(_, _, _)
ValidateFrom(adj, i, visited) ==
    IF i > Len(NodeOrder) THEN << >>
    ELSE IF NodeOrder[i] \in visited THEN ValidateFrom(adj, i + 1, visited)
         ELSE LET r == dfs(adj, NodeOrder[i], << >>, visited, {}) IN
              IF r.cycle # << >> THEN r.cycle
              ELSE ValidateFrom(adj, i + 1, r.visited)

\* _validate_no_cycles: the cycle path of the ValueError, << >> when it passes
_validate_no_cycles(adj) == ValidateFrom(adj, 1, {})

\* number of times node n occurs in the deps lists
Occurrences(adj, n) ==
    LET RECURSIVE Count(_)
        Count(i) == IF i > Len(NodeOrder) THEN 0
                    ELSE Cardinality({k \in DOMAIN adj[NodeOrder[i]] : adj[NodeOrder[i]][k] = n})
                         + Count(i + 1)
    IN Count(1)

\* in_degree as _compute_topo_order counts it: in_degree[dep] += 1 for every
\* dep of every deps list
InDegree(adj) == [n \in NodeIds |-> Occurrences(adj, n)]

\* an inner loop that visits each neighbor once, however often it is listed
RECURSIVE Relax_distinct(_, _, _, _)
Relax_distinct(deps, i, in_degree, queue) ==
    IF i > Len(deps) THEN <<in_degree, queue>>
    ELSE IF \E j \in 1..(i - 1) : deps[j] = deps[i]
    THEN Relax_distinct(deps, i + 1, in_degree, queue)
    ELSE LET neighbor == deps[i]
             d == in_degree[neighbor] - 1
         IN Relax_distinct(deps, i + 1, [in_degree EXCEPT ![neighbor] = d],
                           IF d = 0 THEN Append(queue, neighbor) ELSE queue)

\* the inner loop over adjacency[node_id]: <<in_degree, queue>>
RECURSIVE Relax(_, _, _, _)
Relax(deps, i, in_degree, queue) ==
    IF i > Len(deps) THEN <<in_degree, queue>>
    ELSE LET neighbor == deps[i]
             d == in_degree[neighbor] - 1
         IN Relax(deps, i + 1, [in_degree EXCEPT ![neighbor] = d],
                  IF d = 0 THEN Append(queue, neighbor) ELSE queue)

RECURSIVE Kahn(_, _, _, _)
Kahn(adj, queue, in_degree, order) ==
    IF queue = << >> THEN order
    ELSE LET node_id == Head(queue)
             r == Relax(Get(adj, node_id, << >>), 1, in_degree, Tail(queue))
         IN Kahn(adj, r[2], r[1], Append(order, node_id))

\* _compute_topo_order
_compute_topo_order(adj) ==
    LET in_degree == InDegree(adj)
        queue == SelectSeq(NodeOrder, LAMBDA n : in_degree[n] = 0)
    IN Kahn(adj, queue, in_degree, << >>)

\* DAGBuilder.build as a function of the NodeDefs: the graph it leaves in the
\* builder and the ValueError it raises (kind "none" when it returns)
DAGBuilder_build(defs) ==
    LET a == _build_adjacency(defs) IN
    IF ~a.ok
    THEN [adjacency |-> a.adjacency, reverse_deps |-> a.reverse_deps, topo_order |-> << >>,
          error |-> [kind |-> "unknown", path |-> << >>]]
    ELSE LET cycle == _validate_no_cycles(a.adjacency) IN
         IF cycle # << >>
         THEN [adjacency |-> a.adjacency, reverse_deps |-> a.reverse_deps,
               topo_order |-> << >>, error |-> [kind |-> "cycle", path |-> cycle]]
         ELSE LET order == _compute_topo_order(a.adjacency) IN
              [adjacency |-> a.adjacency, reverse_deps |-> a.reverse_deps,
               topo_order |-> order,
               error |-> IF Len(order) # Len(NodeOrder)
                         THEN [kind |-> "toposort", path |-> << >>]
                         ELSE NoError]

\* DAGBuilder.build
build_dag ==
    /\ dagPc = "config"
    /\ LET r == DAGBuilder_build(nodeDefs) IN
         /\ adjacency' = r.adjacency
         /\ reverse_deps' = r.reverse_deps
         /\ topo_order' = r.topo_order
         /\ buildError' = r.error
         /\ dagPc' = IF r.error = NoError THEN "built" ELSE "rejected"
    /\ UNCHANGED nodeDefs
    /\ UNCHANGED execVars
    /\ UNCHANGED notDag


-----------------------------------------------------------------------------
(* DAGExecutor                                                             *)

EventTimeframes == {"1m", "5m"}

\* event_type and event_data of execute_event; seq tells the payloads apart
Events == {[type |-> TICK, timeframe |-> "-"]}
          \cup {[type |-> CANDLE, timeframe |-> tf] : tf \in EventTimeframes}

Outcomes == {"ok", "empty", "raise"}

\* _add_transitive_deps without the recursion: direct dependents only
_add_transitive_deps_direct(rev, node_id, impacted) ==
    impacted \cup Get(rev, node_id, {})

\* _add_transitive_deps(node_id, impacted): the impacted set after the call
RECURSIVE _add_transitive_deps(_, _, _)
RECURSIVE AddDependents(_, _, _)
_add_transitive_deps(rev, node_id, impacted) ==
    AddDependents(rev, Get(rev, node_id, {}), impacted)

AddDependents(rev, todo, impacted) ==
    IF todo = {} THEN impacted
    ELSE LET dep == CHOOSE d \in todo : TRUE IN
         IF dep \notin impacted
         THEN AddDependents(rev, todo \ {dep},
                            _add_transitive_deps(rev, dep, impacted \cup {dep}))
         ELSE AddDependents(rev, todo \ {dep}, impacted)

\* the match without the timeframe check: the type alone
MatchesEvent_any_timeframe(inp, ev) ==
    inp.type = ev.type

\* an input of the node matches the event (type and, for candles, timeframe)
MatchesEvent(inp, ev) ==
    /\ inp.type = ev.type
    /\ ev.type = CANDLE => inp.source = ev.timeframe

RECURSIVE ImpactedFrom(_, _, _, _, _)
ImpactedFrom(defs, rev, ev, i, impacted) ==
    IF i > Len(NodeOrder) THEN impacted
    ELSE LET node_id == NodeOrder[i] IN
         IF \E k \in DOMAIN defs[node_id] : MatchesEvent(defs[node_id][k], ev)
         THEN ImpactedFrom(defs, rev, ev, i + 1,
                           _add_transitive_deps(rev, node_id, impacted \cup {node_id}))
         ELSE ImpactedFrom(defs, rev, ev, i + 1, impacted)

\* _get_impacted_nodes
_get_impacted_nodes(ev) == ImpactedFrom(nodeDefs, reverse_deps, ev, 1, {})

\* the second executor: `for dep in self.dag.reverse_deps.get(node_id, [])`
\* walks the set in another order (string hashes differ between processes),
\* here from the last node id of NodeOrder to the first
RECURSIVE replica_add_transitive_deps(_, _, _)
RECURSIVE ReplicaAddDependents(_, _, _)
replica_add_transitive_deps(rev, node_id, impacted) ==
    ReplicaAddDependents(rev, Get(rev, node_id, {}), impacted)

ReplicaAddDependents(rev, todo, impacted) ==
    IF todo = {} THEN impacted
    ELSE LET dep == CHOOSE d \in todo : \A e \in todo : IndexOf(NodeOrder, e) <= IndexOf(NodeOrder, d) IN
         IF dep \notin impacted
         THEN ReplicaAddDependents(rev, todo \ {dep},
                                   replica_add_transitive_deps(rev, dep, impacted \cup {dep}))
         ELSE ReplicaAddDependents(rev, todo \ {dep}, impacted)

RECURSIVE ReplicaImpactedFrom(_, _, _, _, _)
ReplicaImpactedFrom(defs, rev, ev, i, impacted) ==
    IF i > Len(NodeOrder) THEN impacted
    ELSE LET node_id == NodeOrder[i] IN
         IF \E k \in DOMAIN defs[node_id] : MatchesEvent(defs[node_id][k], ev)
         THEN ReplicaImpactedFrom(defs, rev, ev, i + 1,
                                  replica_add_transitive_deps(rev, node_id, impacted \cup {node_id}))
         ELSE ReplicaImpactedFrom(defs, rev, ev, i + 1, impacted)

replica_get_impacted_nodes(ev) == ReplicaImpactedFrom(nodeDefs, reverse_deps, ev, 1, {})

\* the order in which each executor's interpreter iterates a set of node ids
SetIteration == NodeOrder
ReplicaSetIteration == [i \in DOMAIN NodeOrder |-> NodeOrder[Len(NodeOrder) + 1 - i]]

\* exec_order = list(impacted): the impacted set in its iteration order
exec_order_of_set(impacted, iteration) ==
    SelectSeq(iteration, LAMBDA n : n \in impacted)

\* exec_order = [n for n in self.dag.topo_order if n in impacted]
exec_order(impacted, iteration) ==
    SelectSeq(topo_order, LAMBDA n : n \in impacted)

\* _gather_inputs, from input index i on
RECURSIVE GatherFrom(_, _, _, _, _)
GatherFrom(inputs_refs, ev, outputs, i, inputs) ==
    IF i > Len(inputs_refs) THEN inputs
    ELSE LET inp_ref == inputs_refs[i] IN
         IF inp_ref.type = TICK /\ ev.type = TICK
         THEN GatherFrom(inputs_refs, ev, outputs, i + 1, Put(inputs, "tick", ev))
         ELSE IF inp_ref.type = CANDLE /\ ev.type = CANDLE
         THEN IF inp_ref.source = ev.timeframe
              THEN GatherFrom(inputs_refs, ev, outputs, i + 1,
                              Put(inputs, "candle_" \o inp_ref.source, ev))
              ELSE GatherFrom(inputs_refs, ev, outputs, i + 1, inputs)
         ELSE IF inp_ref.type = INDICATOR
         THEN LET indicator_output == Get(outputs, inp_ref.source, EmptyDict) IN
              IF indicator_output # EmptyDict
              THEN IF inp_ref.field # None
                   THEN GatherFrom(inputs_refs, ev, outputs, i + 1,
                            Put(inputs, inp_ref.source,
                                Get(indicator_output, Val(inp_ref.field), None)))
                   ELSE GatherFrom(inputs_refs, ev, outputs, i + 1,
                            Put(inputs, inp_ref.source, indicator_output))
              ELSE GatherFrom(inputs_refs, ev, outputs, i + 1, inputs)
         ELSE GatherFrom(inputs_refs, ev, outputs, i + 1, inputs)

_gather_inputs(node_id, ev, outputs) == GatherFrom(nodeDefs[node_id], ev, outputs, 1, EmptyDict)

\* Node.compute of an arbitrary node: it counts its calls in its state and
\* returns a non-empty mapping, an empty one, or raises
compute(inputs, state, outcome) ==
    [state |-> state + 1,
     raised |-> outcome = "raise",
     output |-> IF outcome = "ok" THEN [value |-> state + 1] ELSE EmptyDict]

\* _execute_node with the exception escaping: no try/except around compute
_execute_node_uncaught(node_id, ev, outcome, outputs, states) ==
    LET r == compute(_gather_inputs(node_id, ev, outputs), states[node_id], outcome) IN
    [node_states |-> [states EXCEPT ![node_id] = r.state],
     node_outputs |-> IF r.raised THEN outputs ELSE Put(outputs, node_id, r.output),
     escaped |-> r.raised]

\* _execute_node over nodes that share one state object
_execute_node_shared_state(node_id, ev, outcome, outputs, states) ==
    LET r == compute(_gather_inputs(node_id, ev, outputs), states[node_id], outcome) IN
    [node_states |-> [n \in DOMAIN states |-> r.state],
     node_outputs |-> IF r.raised THEN Put(outputs, node_id, EmptyDict)
                      ELSE Put(outputs, node_id, r.output),
     escaped |-> FALSE]

\* _execute_node: gather, compute, store; a raised failure stores {}
_execute_node(node_id, ev, outcome, outputs, states) ==
    LET r == compute(_gather_inputs(node_id, ev, outputs), states[node_id], outcome) IN
    [node_states |-> [states EXCEPT ![node_id] = r.state],
     node_outputs |-> IF r.raised THEN Put(outputs, node_id, EmptyDict)
                      ELSE Put(outputs, node_id, r.output),
     escaped |-> FALSE]

\* execute_event that keeps the outputs of the previous event
ExecBegin_keep_outputs(ev) ==
    /\ dagPc = "built"
    /\ execPc = "idle"
    /\ nEvents < MaxEvents
    /\ nEvents' = nEvents + 1
    /\ event' = [type |-> ev.type, timeframe |-> ev.timeframe, seq |-> nEvents + 1]
    /\ calls' = << >>
    /\ LET impacted == _get_impacted_nodes(ev) IN
         IF impacted = {}
         THEN pending' = << >> /\ execPc' = "idle"
         ELSE /\ pending' = exec_order(impacted, SetIteration)
              /\ execPc' = "running"
    /\ replica_calls' = << >>
    /\ LET impacted == replica_get_impacted_nodes(ev) IN
         replica_pending' = IF impacted = {} THEN << >>
                            ELSE exec_order(impacted, ReplicaSetIteration)
    /\ UNCHANGED <<node_states, node_outputs>>
    /\ UNCHANGED <<replica_states, replica_outputs>>
    /\ UNCHANGED dagVars
    /\ UNCHANGED notDag

\* execute_event up to the start of the node loop
ExecBegin(ev) ==
    /\ dagPc = "built"
    /\ execPc = "idle"
    /\ nEvents < MaxEvents
    /\ nEvents' = nEvents + 1
    /\ event' = [type |-> ev.type, timeframe |-> ev.timeframe, seq |-> nEvents + 1]
    /\ node_outputs' = EmptyDict
    /\ replica_outputs' = EmptyDict
    /\ calls' = << >>
    /\ LET impacted == _get_impacted_nodes(ev) IN
         IF impacted = {}
         THEN pending' = << >> /\ execPc' = "idle"
         ELSE /\ pending' = exec_order(impacted, SetIteration)
              /\ execPc' = "running"
    /\ replica_calls' = << >>
    /\ LET impacted == replica_get_impacted_nodes(ev) IN
         replica_pending' = IF impacted = {} THEN << >>
                            ELSE exec_order(impacted, ReplicaSetIteration)
    /\ UNCHANGED <<node_states, replica_states>>
    /\ UNCHANGED dagVars
    /\ UNCHANGED notDag

\* execute_event: one iteration of `for node_id in exec_order`
ExecNode(outcome) ==
    /\ execPc = "running"
    /\ pending # << >>
    /\ LET node_id == Head(pending)
           r == _execute_node(node_id, event, outcome, node_outputs, node_states)
       IN /\ node_states' = r.node_states
          /\ node_outputs' = r.node_outputs
          /\ calls' = Append(calls, [node |-> node_id,
                                     inputs |-> _gather_inputs(node_id, event, node_outputs),
                                     outcome |-> outcome])
          /\ pending' = IF r.escaped THEN << >> ELSE Tail(pending)
          /\ execPc' = IF r.escaped \/ Tail(pending) = << >> THEN "idle" ELSE "running"
    /\ IF replica_pending = << >>
       THEN UNCHANGED replicaVars
       ELSE LET node_id == Head(replica_pending)
                r == _execute_node(node_id, event, outcome, replica_outputs, replica_states)
            IN /\ replica_states' = r.node_states
               /\ replica_outputs' = r.node_outputs
               /\ replica_calls' = Append(replica_calls,
                                          [node |-> node_id,
                                           inputs |-> _gather_inputs(node_id, event, replica_outputs),
                                           outcome |-> outcome])
               /\ replica_pending' = IF r.escaped THEN << >> ELSE Tail(replica_pending)
    /\ UNCHANGED <<event, nEvents>>
    /\ UNCHANGED dagVars
    /\ UNCHANGED notDag

-----------------------------------------------------------------------------
(* ConfigLoader                                                            *)

MaxEntries == 3
MaxFiles == 2

IndicatorConfig(id, type, params, inputs) ==
    [id |-> id, type |-> type, params |-> params, inputs |-> inputs]

StrategyConfig(id, type, params, depends_on) ==
    [id |-> id, type |-> type, params |-> params, depends_on |-> depends_on]

NodeDef(id, type, inputs, params, outputs) ==
    [id |-> id, type |-> type, inputs |-> inputs, params |-> params, outputs |-> outputs]

\* the indicator entries a YAML file may hold: a base definition of "ema",
\* one variant of it per compared field, and two definitions of "sig", one
\* of them with an input dict that lacks its source
IndicatorConfigs ==
    {IndicatorConfig("ema", "EMA", [length |-> 20], <<[type |-> CANDLE, source |-> "1m"]>>),
     IndicatorConfig("ema", "SMA", [length |-> 20], <<[type |-> CANDLE, source |-> "1m"]>>),
     IndicatorConfig("ema", "EMA", [length |-> 50], <<[type |-> CANDLE, source |-> "1m"]>>),
     IndicatorConfig("ema", "EMA", [length |-> 20], <<[type |-> CANDLE, source |-> "5m"]>>),
     IndicatorConfig("sig", "RSI", [length |-> 14],
                     <<[type |-> INDICATOR, source |-> "ema", field |-> "value"]>>),
     IndicatorConfig("sig", "RSI", [length |-> 14], <<[type |-> CANDLE]>>)}

\* the strategy entries: "sig" is also the id of an indicator
StrategyConfigs ==
    {StrategyConfig("sig", "Breakout", [threshold |-> 1], <<"ema">>),
     StrategyConfig("cross", "Breakout", [threshold |-> 1], <<"ema">>),
     StrategyConfig("cross", "Breakout", [threshold |-> 1], <<"ema", "zz">>)}

TotalEntries(cfgs) ==
    LET RECURSIVE Sum(_)
        Sum(i) == IF i > Len(cfgs) THEN 0
                  ELSE Len(cfgs[i].indicators) + Len(cfgs[i].strategies) + Sum(i + 1)
    IN Sum(1)

\* a YAML file of the symbol's directory gets one more indicator entry
WriteIndicator(f, ind) ==
    /\ loadPc = "config"
    /\ TotalEntries(configs) < MaxEntries
    /\ configs' = [configs EXCEPT ![f].indicators = Append(@, ind)]
    /\ UNCHANGED <<loadPc, loadError, node_defs, nodes>>
    /\ UNCHANGED notLoader

\* a YAML file of the symbol's directory gets one more strategy entry
WriteStrategy(f, strat) ==
    /\ loadPc = "config"
    /\ TotalEntries(configs) < MaxEntries
    /\ configs' = [configs EXCEPT ![f].strategies = Append(@, strat)]
    /\ UNCHANGED <<loadPc, loadError, node_defs, nodes>>
    /\ UNCHANGED notLoader

NoLoadError == [kind |-> "none", id |-> ""]

\* position of the entry with this id in an insertion-ordered dict (kept as
\* the sequence of its values), 0 when the id is no key
Find(all, id) ==
    IF \E k \in DOMAIN all : all[k].id = id
    THEN CHOOSE k \in DOMAIN all : all[k].id = id
    ELSE 0

\* the conflict test with the type left out
IndicatorsDiffer_type_ignored(existing, ind) ==
    existing.params # ind.params \/ existing.inputs # ind.inputs

\* the conflict test of two indicator entries with the same id
IndicatorsDiffer(existing, ind) ==
    \/ existing.params # ind.params
    \/ existing.type # ind.type
    \/ existing.inputs # ind.inputs

\* the duplicate test that lets an identical strategy entry through
StrategyDuplicate_unless_identical(all_strategies, strat) ==
    /\ Find(all_strategies, strat.id) # 0
    /\ all_strategies[Find(all_strategies, strat.id)] # strat

\* `if strat.id in all_strategies`
StrategyDuplicate(all_strategies, strat) == Find(all_strategies, strat.id) # 0

\* ValueError(f"Conflicting definitions for indicator: {ind.id}\n"
\*            f"First: {existing}\nSecond: {ind}"): its kind and what the
\* message spells out, the id and the two entries
ConflictError(existing, ind) ==
    [kind |-> "conflict", id |-> ind.id, First |-> existing, Second |-> ind]

\* the indicator loop of one config, from entry i on
RECURSIVE MergeIndicators(_, _, _)
MergeIndicators(inds, i, all_indicators) ==
    IF i > Len(inds) THEN [all |-> all_indicators, error |-> NoLoadError]
    ELSE LET ind == inds[i]
             k == Find(all_indicators, ind.id)
         IN IF k # 0
            THEN IF IndicatorsDiffer(all_indicators[k], ind)
                 THEN [all |-> all_indicators,
                       error |-> ConflictError(all_indicators[k], ind)]
                 ELSE MergeIndicators(inds, i + 1, all_indicators)
            ELSE MergeIndicators(inds, i + 1, Append(all_indicators, ind))

\* the strategy loop of one config, from entry i on
RECURSIVE MergeStrategies(_, _, _)
MergeStrategies(strats, i, all_strategies) ==
    IF i > Len(strats) THEN [all |-> all_strategies, error |-> NoLoadError]
    ELSE LET strat == strats[i] IN
         IF StrategyDuplicate(all_strategies, strat)
         THEN [all |-> all_strategies, error |-> [kind |-> "duplicate", id |-> strat.id]]
         ELSE MergeStrategies(strats, i + 1, Append(all_strategies, strat))

\* `for config in configs`, from config c on
RECURSIVE MergeFrom(_, _, _, _)
MergeFrom(cfgs, c, all_indicators, all_strategies) ==
    IF c > Len(cfgs)
    THEN [all_indicators |-> all_indicators, all_strategies |-> all_strategies,
          error |-> NoLoadError]
    ELSE LET ri == MergeIndicators(cfgs[c].indicators, 1, all_indicators) IN
         IF ri.error # NoLoadError
         THEN [all_indicators |-> ri.all, all_strategies |-> all_strategies,
               error |-> ri.error]
         ELSE LET rs == MergeStrategies(cfgs[c].strategies, 1, all_strategies) IN
              IF rs.error # NoLoadError
              THEN [all_indicators |-> ri.all, all_strategies |-> rs.all,
                    error |-> rs.error]
              ELSE MergeFrom(cfgs, c + 1, ri.all, rs.all)

InputTypes == {TICK, CANDLE, INDICATOR}

\* InputRef(type=InputType(d["type"]), source=d["source"], field=d.get("field"))
\* raises KeyError or ValueError for a dict that is no valid input
ValidInput(inp_dict) ==
    /\ "type" \in DOMAIN inp_dict
    /\ inp_dict.type \in InputTypes
    /\ "source" \in DOMAIN inp_dict

ToInputRef(inp_dict) ==
    InputRef(inp_dict.type, inp_dict.source,
             IF "field" \in DOMAIN inp_dict THEN Some(inp_dict.field) ELSE None)

\* `for ind in all_indicators.values()`, from entry i on
RECURSIVE ConvertIndicators(_, _, _)
ConvertIndicators(all_indicators, i, defs) ==
    IF i > Len(all_indicators) THEN [node_defs |-> defs, error |-> NoLoadError]
    ELSE LET ind == all_indicators[i] IN
         IF \E k \in DOMAIN ind.inputs : ~ValidInput(ind.inputs[k])
         THEN [node_defs |-> defs, error |-> [kind |-> "invalid_input", id |-> ind.id]]
         ELSE ConvertIndicators(all_indicators, i + 1,
                  Append(defs, NodeDef(ind.id, ind.type,
                                       [k \in DOMAIN ind.inputs |-> ToInputRef(ind.inputs[k])],
                                       ind.params, <<"value">>)))

\* `for strat in all_strategies.values()`
ConvertStrategies(all_strategies) ==
    [i \in DOMAIN all_strategies |->
        LET strat == all_strategies[i] IN
        NodeDef(strat.id, strat.type,
                [k \in DOMAIN strat.depends_on |-> InputRef(INDICATOR, strat.depends_on[k], None)],
                strat.params, <<"signal">>)]

\* _merge_configs: the NodeDef list, or the ValueError raised
_merge_configs(cfgs) ==
    LET m == MergeFrom(cfgs, 1, << >>, << >>) IN
    IF m.error # NoLoadError THEN [node_defs |-> << >>, error |-> m.error]
    ELSE LET ci == ConvertIndicators(m.all_indicators, 1, << >>) IN
         IF ci.error # NoLoadError THEN [node_defs |-> << >>, error |-> ci.error]
         ELSE [node_defs |-> ci.node_defs \o ConvertStrategies(m.all_strategies),
               error |-> NoLoadError]

\* load_pipeline once the YAML files are parsed
load_pipeline ==
    /\ loadPc = "config"
    /\ LET r == _merge_configs(configs) IN
         /\ loadError' = r.error
         /\ node_defs' = r.node_defs
         /\ loadPc' = IF r.error # NoLoadError THEN "failed" ELSE "loaded"
    /\ UNCHANGED <<configs, nodes>>
    /\ UNCHANGED notLoader

\* {n.id: n for n in node_defs}: a later NodeDef replaces an earlier one with the same id
NodesById(defs) ==
    [id \in {defs[k].id : k \in DOMAIN defs} |->
        defs[CHOOSE k \in DOMAIN defs :
                 defs[k].id = id /\ \A j \in DOMAIN defs : defs[j].id = id => j <= k]]

\* DAGBuilder.__init__ on the loaded list
DAGBuilder_init ==
    /\ loadPc = "loaded"
    /\ nodes' = NodesById(node_defs)
    /\ loadPc' = "built"
    /\ UNCHANGED <<configs, loadError, node_defs>>
    /\ UNCHANGED notLoader

PipelineConfig(symbol, indicators, strategies) ==
    [symbol |-> symbol, indicators |-> indicators, strategies |-> strategies]

LoaderInit ==
    /\ configs = [f \in 1..MaxFiles |-> PipelineConfig(Symbol, << >>, << >>)]
    /\ loadPc = "config"
    /\ loadError = NoLoadError
    /\ node_defs = << >>
    /\ nodes = EmptyDict

LoaderNext ==
    \/ \E f \in 1..MaxFiles, ind \in IndicatorConfigs : WriteIndicator(f, ind)
    \/ \E f \in 1..MaxFiles, strat \in StrategyConfigs : WriteStrategy(f, strat)
    \/ load_pipeline
    \/ DAGBuilder_init


-----------------------------------------------------------------------------
(* SymbolCoordinator                                                       *)

MaxMsgs == 2

\* self.symbol, as the sequence of its characters, and another symbol whose
\* topics are the same
self_symbol == <<"E", "S", " ", "1">>
OtherSymbol == <<"E", "S", "_", "1">>

\* str.isalnum() on the characters symbols are drawn from: letters and
\* digits of any script ("U+00E9" is the letter e with an acute accent)
isalnum(c) == c \in {"E", "S", "1", "U+00E9"}

\* c.isalnum() or c in "-_", for the characters symbols are made of
IsTopicChar(c) == isalnum(c) \/ c \in {"-", "_"}

\* a _sanitize that only replaces the spaces
_sanitize_spaces_only(symbol) ==
    [i \in DOMAIN symbol |-> IF symbol[i] = " " THEN "_" ELSE symbol[i]]

\* Topics._sanitize
_sanitize(symbol) ==
    LET spaced == [i \in DOMAIN symbol |-> IF symbol[i] = " " THEN "_" ELSE symbol[i]]
    IN [i \in DOMAIN spaced |-> IF IsTopicChar(spaced[i]) THEN spaced[i] ELSE "_"]

\* a topic "prefix.symbol.rest" ("prefix.symbol" when rest is "")
Topic(prefix, symbol, rest) == [prefix |-> prefix, symbol |-> symbol, rest |-> rest]

Topics_ticks_raw(symbol) == Topic("ticks.raw", _sanitize(symbol), "")
Topics_candles_all(symbol) == Topic("candles", _sanitize(symbol), "*")
Topics_indicators(symbol, indicator_id) == Topic("indicators", _sanitize(symbol), indicator_id)

\* a node type is the sequence of the words of its name: "TrendStrategy" is
\* <<"Trend", "Strategy">>
StrategyList == {<<"Liquidity", "Breakout">>, <<"Breakout">>, <<"Mean", "Reversion">>}

\* type.endswith("Strategy")
endswith_Strategy(type) == type # << >> /\ type[Len(type)] = "Strategy"

\* the strategy test by the fixed list alone
is_strategy_listed_only(type) == type \in StrategyList

\* is_strategy of _publish_outputs
is_strategy(type) == endswith_Strategy(type) \/ type \in StrategyList

\* the topic _publish_outputs picks for a node
output_topic(node_id, type) ==
    IF is_strategy(type)
    THEN Topic("strategies.signals", _sanitize(self_symbol), node_id)
    ELSE Topics_indicators(self_symbol, node_id)

\* the node types registered with the NodeRegistry
Registered == {<<"EMA">>, <<"RSI">>, <<"Tape">>, <<"Const">>, <<"Strategy", "Score">>,
               <<"Breakout">>, <<"Trend", "Strategy">>}

\* NodeRegistry.create: raises ValueError for a type that is not registered
registry_create(node_def) == [raised |-> node_def.type \notin Registered]

\* ---- the pipelines found in the config directory ----

Indicator(id, type, inputs) == IndicatorConfig(id, type, [length |-> 20], inputs)
Strategy(id, type, depends_on) == StrategyConfig(id, type, [threshold |-> 1], depends_on)

FromTick == [type |-> TICK, source |-> ""]
FromCandle == [type |-> CANDLE, source |-> "1m"]
FromIndicator(id) == [type |-> INDICATOR, source |-> id]

\* a: 1m candles, b: a, strategy c: b
CandlePipeline ==
    <<PipelineConfig(Symbol,
          <<Indicator("a", <<"EMA">>, <<FromCandle>>),
            Indicator("b", <<"RSI">>, <<FromIndicator("a")>>)>>,
          <<Strategy("c", <<"Breakout">>, <<"b">>)>>)>>

\* two files that share the indicator a; a: ticks, b: 1m candles, strategy c: a and b
MixedPipeline ==
    <<PipelineConfig(Symbol, <<Indicator("a", <<"Tape">>, <<FromTick>>)>>, << >>),
      PipelineConfig(Symbol,
          <<Indicator("a", <<"Tape">>, <<FromTick>>),
            Indicator("b", <<"Strategy", "Score">>, <<FromCandle>>)>>,
          <<Strategy("c", <<"Trend", "Strategy">>, <<"a", "b">>)>>)>>

\* no node takes ticks or candles
IndicatorOnlyPipeline ==
    <<PipelineConfig(Symbol,
          <<Indicator("a", <<"Const">>, << >>),
            Indicator("b", <<"RSI">>, <<FromIndicator("a")>>)>>,
          <<Strategy("c", <<"Breakout">>, <<"a">>)>>)>>

\* the strategy b has the id of the indicator b, which takes ticks
TickCollisionPipeline ==
    <<PipelineConfig(Symbol,
          <<Indicator("a", <<"EMA">>, <<FromCandle>>),
            Indicator("b", <<"Tape">>, <<FromTick>>),
            Indicator("c", <<"RSI">>, <<FromIndicator("a")>>)>>,
          <<Strategy("b", <<"Breakout">>, <<"a">>)>>)>>

\* the strategy b has the id of the indicator b, whose source is no node
UnknownCollisionPipeline ==
    <<PipelineConfig(Symbol,
          <<Indicator("a", <<"EMA">>, <<FromCandle>>),
            Indicator("b", <<"RSI">>, <<FromIndicator(UnknownId)>>),
            Indicator("c", <<"RSI">>, <<FromIndicator("a")>>)>>,
          <<Strategy("b", <<"Breakout">>, <<"a">>)>>)>>

ConflictPipeline ==
    <<PipelineConfig(Symbol, <<Indicator("a", <<"EMA">>, <<FromCandle>>)>>, << >>),
      PipelineConfig(Symbol, <<Indicator("a", <<"EMA">>, <<FromTick>>)>>, << >>)>>

DuplicateStrategyPipeline ==
    <<PipelineConfig(Symbol, <<Indicator("a", <<"EMA">>, <<FromCandle>>)>>,
                     <<Strategy("c", <<"Breakout">>, <<"a">>)>>),
      PipelineConfig(Symbol, << >>, <<Strategy("c", <<"Breakout">>, <<"a">>)>>)>>

UnknownSourcePipeline ==
    <<PipelineConfig(Symbol,
          <<Indicator("a", <<"EMA">>, <<FromCandle>>),
            Indicator("b", <<"RSI">>, <<FromIndicator(UnknownId)>>)>>,
          <<Strategy("c", <<"Breakout">>, <<"b">>)>>)>>

CyclePipeline ==
    <<PipelineConfig(Symbol,
          <<Indicator("a", <<"EMA">>, <<FromCandle, FromIndicator("b")>>),
            Indicator("b", <<"RSI">>, <<FromIndicator("a")>>)>>,
          <<Strategy("c", <<"Breakout">>, <<"b">>)>>)>>

UnknownTypePipeline ==
    <<PipelineConfig(Symbol,
          <<Indicator("a", <<"EMA">>, <<FromCandle>>),
            Indicator("b", <<"VWAP">>, <<FromTick>>)>>,
          <<Strategy("c", <<"Breakout">>, <<"a">>)>>)>>

InvalidInputPipeline ==
    <<PipelineConfig(Symbol,
          <<Indicator("a", <<"EMA">>, <<[type |-> CANDLE]>>),
            Indicator("b", <<"RSI">>, <<FromIndicator("a")>>)>>,
          <<Strategy("c", <<"Breakout">>, <<"b">>)>>)>>

Pipelines ==
    {CandlePipeline, MixedPipeline, IndicatorOnlyPipeline, TickCollisionPipeline,
     UnknownCollisionPipeline, ConflictPipeline, DuplicateStrategyPipeline,
     UnknownSourcePipeline, CyclePipeline, UnknownTypePipeline, InvalidInputPipeline}

\* ---- __init__ ----

NoDag == [adjacency |-> EmptyDict, reverse_deps |-> EmptyDict, topo_order |-> << >>,
          error |-> NoError]

\* the stages of __init__: load_pipeline, DAGBuilder(node_defs).build(), and
\* registry.create for every NodeDef; error is the kind of the exception that
\* left __init__
Construct(cfgs) ==
    LET Result(loaded, by_id, defs, dag) ==
            IF loaded.error # NoLoadError
            THEN [error |-> loaded.error.kind, loadError |-> loaded.error, node_defs |-> << >>,
                  nodes |-> EmptyDict, defs |-> [n \in NodeIds |-> << >>], dag |-> NoDag]
            ELSE IF dag.error # NoError
            THEN [error |-> dag.error.kind, loadError |-> NoLoadError,
                  node_defs |-> loaded.node_defs, nodes |-> by_id, defs |-> defs, dag |-> dag]
            ELSE IF \E k \in DOMAIN loaded.node_defs : registry_create(loaded.node_defs[k]).raised
            THEN [error |-> "unknown_type", loadError |-> NoLoadError,
                  node_defs |-> loaded.node_defs, nodes |-> by_id, defs |-> defs, dag |-> dag]
            ELSE [error |-> "none", loadError |-> NoLoadError,
                  node_defs |-> loaded.node_defs, nodes |-> by_id, defs |-> defs, dag |-> dag]
        Built(loaded, by_id, defs) == Result(loaded, by_id, defs, DAGBuilder_build(defs))
        Indexed(loaded, by_id) == Built(loaded, by_id, [n \in NodeIds |-> by_id[n].inputs])
        Loaded(loaded) == Indexed(loaded, NodesById(loaded.node_defs))
    IN Loaded(_merge_configs(cfgs))

Handlers == {TICK, CANDLE}

\* SymbolCoordinator.__init__ over the YAML files of the symbol's directory
SymbolCoordinator_init(cfgs) ==
    /\ coordPc = "new"
    /\ \E r \in {Construct(cfgs)} :
         /\ configs' = cfgs
         /\ loadError' = r.loadError
         /\ loadPc' = IF r.loadError # NoLoadError THEN "failed" ELSE "built"
         /\ node_defs' = r.node_defs
         /\ nodes' = r.nodes
         /\ nodeDefs' = r.defs
         /\ adjacency' = r.dag.adjacency
         /\ reverse_deps' = r.dag.reverse_deps
         /\ topo_order' = r.dag.topo_order
         /\ buildError' = r.dag.error
         /\ dagPc' = IF r.loadError # NoLoadError THEN "config"
                     ELSE IF r.dag.error # NoError THEN "rejected" ELSE "built"
         /\ initError' = r.error
         /\ coordPc' = IF r.error = "none" THEN "ready" ELSE "failed"
    /\ UNCHANGED <<subscriptions, running, hpc, hevent, horder, hpending, hpos, heap,
                   msgs, sent, produced>>
    /\ UNCHANGED <<leafVars, aggVars, execVars>>

\* ---- start ----

\* _needs_event_type
_needs_event_type(event_type) ==
    \E id \in DOMAIN nodes :
        \E k \in DOMAIN nodes[id].inputs : nodes[id].inputs[k].type = event_type

Subscription(topic, handler) == [topic |-> topic, handler |-> handler]

\* start up to the return of the first subscribe
start ==
    /\ coordPc = "ready"
    /\ subscriptions' = IF _needs_event_type(TICK)
                        THEN subscriptions \cup {Subscription(Topics_ticks_raw(self_symbol), TICK)}
                        ELSE subscriptions
    /\ coordPc' = "starting"
    /\ UNCHANGED <<initError, running, hpc, hevent, horder, hpending, hpos, heap,
                   msgs, sent, produced>>
    /\ UNCHANGED <<leafVars, aggVars, dagVars, execVars, loaderVars>>

\* the rest of start
start_candles ==
    /\ coordPc = "starting"
    /\ subscriptions' = IF _needs_event_type(CANDLE)
                        THEN subscriptions \cup {Subscription(Topics_candles_all(self_symbol), CANDLE)}
                        ELSE subscriptions
    /\ coordPc' = "started"
    /\ UNCHANGED <<initError, running, hpc, hevent, horder, hpending, hpos, heap,
                   msgs, sent, produced>>
    /\ UNCHANGED <<leafVars, aggVars, dagVars, execVars, loaderVars>>

\* ---- _handle_tick and _handle_candle ----

\* msg.data: bytes that do not decode (the truncated text of a payload for
\* this symbol), else a mapping whose symbol may be missing; a candle payload
\* carries its timeframe
Payloads ==
    {[decodable |-> FALSE, symbol |-> Some(self_symbol), timeframe |-> "1m"]}
    \cup {[decodable |-> TRUE, symbol |-> s, timeframe |-> tf] :
             s \in {None, Some(self_symbol), Some(OtherSymbol)}, tf \in EventTimeframes}

\* a decoder that makes a mapping of whatever text it is given
json_loads_lenient(payload) == [raised |-> FALSE, data |-> payload]

\* json.loads(msg.data.decode()): the mapping, or the exception raised
json_loads(payload) == [raised |-> ~payload.decodable, data |-> payload]

\* the symbol check that lets every payload through
symbol_differs_never(payload) == FALSE

\* `data.get("symbol") != self.symbol`
symbol_differs(payload) == payload.symbol # Some(self_symbol)

\* every point of a callback gives the thread up
Suspends_everywhere(pc) == TRUE

\* where a callback can be suspended: execute_event is a plain call, the only
\* await of a callback is the publish_json of _publish_outputs
Suspends(pc) == pc = "publish"

\* position of the next item with a non-empty output, from position i on, in
\* the dict _publish_outputs iterates (its keys are in execution order); 0 when
\* the iteration is over
NextItem(d, order, i) ==
    IF \E k \in i..Len(order) : Get(d, order[k], EmptyDict) # EmptyDict
    THEN CHOOSE k \in i..Len(order) :
             /\ Get(d, order[k], EmptyDict) # EmptyDict
             /\ \A j \in i..(k - 1) : Get(d, order[j], EmptyDict) = EmptyDict
    ELSE 0

\* _handle_tick (h = "tick") and _handle_candle (h = "candle"): the callback
\* from its entry to the first node of execute_event
SymbolCoordinator_handle(h, payload) ==
    /\ \E sub \in subscriptions : sub.handler = h
    /\ hpc[h] = "idle"
    /\ running = "none"
    /\ Len(msgs) < MaxMsgs
    /\ msgs' = Append(msgs, [handler |-> h, payload |-> payload])
    /\ IF json_loads(payload).raised \/ symbol_differs(json_loads(payload).data)
       THEN /\ UNCHANGED <<running, hpc, hevent, horder, hpending, heap, produced>>
            /\ UNCHANGED <<node_outputs, nEvents>>
       ELSE LET ev == [type |-> h,
                       timeframe |-> IF h = CANDLE THEN payload.timeframe ELSE "-",
                       seq |-> nEvents + 1,
                       msg |-> Len(msgs) + 1]
                impacted == _get_impacted_nodes(ev)
                order == IF impacted = {} THEN << >> ELSE exec_order(impacted, SetIteration)
            IN /\ nEvents' = nEvents + 1
               /\ node_outputs' = EmptyDict
               /\ heap' = Append(heap, EmptyDict)
               /\ produced' = Append(produced, EmptyDict)
               /\ hevent' = [hevent EXCEPT ![h] = ev]
               /\ horder' = [horder EXCEPT ![h] = order]
               /\ hpending' = [hpending EXCEPT ![h] = order]
               /\ hpc' = [hpc EXCEPT ![h] = IF order = << >> THEN "idle" ELSE "exec"]
               /\ running' = IF order = << >> \/ Suspends("exec") THEN "none" ELSE h
    /\ UNCHANGED <<coordPc, initError, subscriptions, hpos, sent>>
    /\ UNCHANGED <<node_states, execPc, event, pending, calls, replicaVars>>
    /\ UNCHANGED <<leafVars, aggVars, dagVars, loaderVars>>

\* one iteration of execute_event's node loop inside a callback; after the
\* last one _publish_outputs runs up to its first publish_json
execute_event_node(h, outcome) ==
    /\ hpc[h] = "exec"
    /\ running \in {"none", h}
    /\ LET node_id == Head(hpending[h])
           r == _execute_node(node_id, hevent[h], outcome, node_outputs, node_states)
           rest == Tail(hpending[h])
           first == NextItem(r.node_outputs, horder[h], 1)
       IN /\ node_states' = r.node_states
          /\ node_outputs' = r.node_outputs
          /\ heap' = [heap EXCEPT ![Len(heap)] = r.node_outputs]
          /\ hpending' = [hpending EXCEPT ![h] = rest]
          /\ IF rest # << >>
             THEN /\ running' = IF Suspends("exec") THEN "none" ELSE h
                  /\ UNCHANGED <<hpc, hpos, produced>>
             ELSE /\ produced' = [produced EXCEPT ![hevent[h].seq] = r.node_outputs]
                  /\ hpos' = [hpos EXCEPT ![h] = first]
                  /\ hpc' = [hpc EXCEPT ![h] = IF first = 0 THEN "idle" ELSE "publish"]
                  /\ running' = "none"
    /\ UNCHANGED <<coordPc, initError, subscriptions, hevent, horder, msgs, sent>>
    /\ UNCHANGED <<execPc, event, pending, calls, nEvents, replicaVars>>
    /\ UNCHANGED <<leafVars, aggVars, dagVars, loaderVars>>

PublishResults == {"ok", "raise"}

\* a loop that looks up self.executor.node_outputs anew at every step
items_of_current(objects, obj, current) == current

\* `for node_id, output in self.executor.node_outputs.items()`: the loop
\* iterates the dict object that was bound when it began, whatever
\* node_outputs is bound to later
items_of(objects, obj, current) == objects[obj]

\* _publish_outputs: the publish_json it awaits returns or raises, and the
\* loop runs on to the next publish_json or to its end
_publish_outputs(h, result) ==
    /\ hpc[h] = "publish"
    /\ running \in {"none", h}
    /\ LET d == items_of(heap, hevent[h].seq, node_outputs)
           node_id == horder[h][hpos[h]]
           next == NextItem(d, horder[h], hpos[h] + 1)
       IN /\ sent' = Append(sent, [seq |-> hevent[h].seq,
                                   msg |-> hevent[h].msg,
                                   node_id |-> node_id,
                                   topic |-> output_topic(node_id, nodes[node_id].type),
                                   output |-> Get(d, node_id, EmptyDict),
                                   failed |-> result = "raise"])
          /\ hpos' = [hpos EXCEPT ![h] = next]
          /\ hpc' = [hpc EXCEPT ![h] = IF next = 0 THEN "idle" ELSE "publish"]
    /\ running' = "none"
    /\ UNCHANGED <<coordPc, initError, subscriptions, hevent, horder, hpending, heap,
                   msgs, produced>>
    /\ UNCHANGED <<leafVars, aggVars, dagVars, execVars, loaderVars>>

CoordInit ==
    /\ coordPc = "new"
    /\ initError = "none"
    /\ subscriptions = {}
    /\ running = "none"
    /\ hpc = [h \in Handlers |-> "idle"]
    /\ hevent = [h \in Handlers |-> [type |-> h, timeframe |-> "-", seq |-> 0, msg |-> 0]]
    /\ horder = [h \in Handlers |-> << >>]
    /\ hpending = [h \in Handlers |-> << >>]
    /\ hpos = [h \in Handlers |-> 0]
    /\ heap = << >>
    /\ msgs = << >>
    /\ sent = << >>
    /\ produced = << >>

CoordNext ==
    \/ \E cfgs \in Pipelines : SymbolCoordinator_init(cfgs)
    \/ start
    \/ start_candles
    \/ \E h \in Handlers, payload \in Payloads : SymbolCoordinator_handle(h, payload)
    \/ \E h \in Handlers, outcome \in Outcomes : execute_event_node(h, outcome)
    \/ \E h \in Handlers, result \in PublishResults : _publish_outputs(h, result)


-----------------------------------------------------------------------------
(* Candle (schemas/market_data.py): the value type and its encodings       *)

\* the candles of the data model: low <= open, close <= high, volume >= 0,
\* tick_count >= 1, timestamp a multiple of the timeframe's width
Candles ==
    {c \in [symbol : {Symbol},
            timestamp : {DateTime(t, a) : t \in {0, 60, 300}, a \in BOOLEAN},
            timeframe : {"1m", "5m"},
            open : Prices, high : Prices, low : Prices, close : Prices,
            volume : {0, 2}, tick_count : {1, 2}] :
        /\ c.low <= c.open /\ c.open <= c.high
        /\ c.low <= c.close /\ c.close <= c.high
        /\ c.timestamp.t % TIMEFRAMES[c.timeframe] = 0}

\* Candle.to_dict
Candle_to_dict(c) ==
    [symbol |-> c.symbol, timestamp |-> isoformat(c.timestamp), timeframe |-> c.timeframe,
     open |-> c.open, high |-> c.high, low |-> c.low, close |-> c.close,
     volume |-> c.volume, tick_count |-> c.tick_count]

\* a text that spells no date: datetime.fromisoformat raises ValueError on it
NotADate == [t |-> -1, offset |-> FALSE]

\* a from_dict that takes the defaults for volume and tick_count
Candle_from_dict_defaults(data) ==
    [raised |-> FALSE,
     candle |-> [symbol |-> data.symbol, timestamp |-> fromisoformat(data.timestamp),
                 timeframe |-> data.timeframe,
                 open |-> data.open, high |-> data.high, low |-> data.low,
                 close |-> data.close, volume |-> 0, tick_count |-> 0]]

\* Candle.from_dict: KeyError for a missing required key, ValueError for a
\* timestamp text that is no date; volume and tick_count default to 0
Candle_from_dict(data) ==
    IF /\ {"timestamp", "symbol", "timeframe", "open", "high", "low", "close"}
              \subseteq DOMAIN data
       /\ data.timestamp # NotADate
    THEN [raised |-> FALSE,
          candle |-> [symbol |-> data.symbol,
                      timestamp |-> fromisoformat(data.timestamp),
                      timeframe |-> data.timeframe,
                      open |-> data.open, high |-> data.high, low |-> data.low,
                      close |-> data.close,
                      volume |-> IF "volume" \in DOMAIN data THEN data.volume ELSE 0,
                      tick_count |-> IF "tick_count" \in DOMAIN data
                                     THEN data.tick_count ELSE 0]]
    ELSE [raised |-> TRUE, candle |-> None]

\* json.dumps of a dict: the text of an object is its members "key": value
json_dumps(obj) == {<<k, obj[k]>> : k \in DOMAIN obj}

\* json.loads of the text of an object: the dict of its members
json_loads_object(text) ==
    [k \in {m[1] : m \in text} |-> (CHOOSE m \in text : m[1] = k)[2]]

\* Candle.to_json
Candle_to_json(c) == json_dumps(Candle_to_dict(c))

\* Candle.from_json
Candle_from_json(json_str) == Candle_from_dict(json_loads_object(json_str))

\* a candle is encoded both ways and decoded again
Candle_round_trip ==
    /\ decoded = None
    /\ decoded' = Some([from_json |-> Candle_from_json(Candle_to_json(original)),
                        from_dict |-> Candle_from_dict(Candle_to_dict(original))])
    /\ UNCHANGED <<original, topicVars, nodeVars, sinkVars>>
    /\ UNCHANGED notLeaf

CandleInit ==
    /\ original = CHOOSE c \in Candles : TRUE
    /\ decoded = None

CandleNext == Candle_round_trip

-----------------------------------------------------------------------------
(* Topics (dataflow/adapters/nats_client.py)                               *)
MaxNameLen == 3

\* the characters of the symbols handed to the topic builders
Chars == {"E", "1", "U+00E9", "-", "_", " ", ".", "*", ">"}

Names == UNION {[1..n -> Chars] : n \in 0..MaxNameLen}

\* a symbol is sanitized, and the result sanitized again
Topics_sanitize ==
    /\ sanitized = None
    /\ sanitized' = Some(<<_sanitize(name), _sanitize(_sanitize(name))>>)
    /\ UNCHANGED <<name, candleVars, nodeVars, sinkVars>>
    /\ UNCHANGED notLeaf

TopicsInit ==
    /\ name = << >>
    /\ sanitized = None

TopicsNext == Topics_sanitize

-----------------------------------------------------------------------------
(* CandleScienceFilterSettingsNode (indicators/candle_science_filter_       *)
(* settings/node.py) and its filter calculator                             *)
MaxBufferSize == 3
MaxComputes == 4

\* the dict of a set of <<key, value>> items with distinct keys
DictOf(items) == [k \in {it[1] : it \in items} |-> (CHOOSE it \in items : it[1] = k)[2]]

\* CandleScienceFilterCalculator.analyze_direction
analyze_direction(c) == IF c.close >= c.open THEN "Bullish" ELSE "Bearish"

\* CandleScienceFilterCalculator.build_direction_filters: the key
\* f'C{k}_body_direction' is <<k, "body_direction">>
build_direction_filters(candles) ==
    DictOf({<<<<k, "body_direction">>, analyze_direction(candles[k])>> : k \in DOMAIN candles})

\* the keys build_position_filters sets for the pair c1 (previous), c2
\* (current, the n-th candle)
PairFilters(c1, c2, n) ==
    LET d1 == analyze_direction(c1)
        d2 == analyze_direction(c2)
        top == IF d1 = "Bullish" THEN c1.close ELSE c1.open
        bottom == IF d1 = "Bullish" THEN c1.open ELSE c1.close
        K(attr, v) == <<<<n, attr>>, v>>
    IN  CASE d1 = "Bullish" /\ d2 = "Bullish" ->
               (IF c2.close > c1.high THEN {K("close_diff_prev_high", "Above")}
                ELSE IF c2.high < c1.high THEN {K("high_diff_prev_high", "Below")}
                ELSE IF c2.high > c1.high
                     THEN {K("high_diff_prev_high", "Above"), K("close_diff_prev_high", "Below")}
                     ELSE {})
               \cup
               (IF c2.low < c1.low THEN {K("low_diff_prev_low", "Below")}
                ELSE IF c2.low > bottom THEN {K("low_diff_prev_open", "Above")}
                ELSE IF c2.low > c1.low /\ c2.low < bottom
                     THEN {K("low_diff_prev_open", "Below"), K("low_diff_prev_low", "Above")}
                     ELSE {})
          [] d1 = "Bullish" /\ d2 = "Bearish" ->
               (IF c2.close < c1.low THEN {K("close_diff_prev_low", "Below")}
                ELSE IF c2.low > bottom THEN {K("low_diff_prev_open", "Above")}
                ELSE IF c2.low > c1.low /\ c2.low < bottom
                     THEN {K("low_diff_prev_low", "Above"), K("low_diff_prev_open", "Below"),
                           K("close_diff_prev_open",
                             IF c2.close < bottom THEN "Below" ELSE "Above")}
                     ELSE {})
               \cup
               (IF c2.high > c1.high THEN {K("high_diff_prev_high", "Above")}
                ELSE {K("high_diff_prev_high", "Below")})
          [] d1 = "Bearish" /\ d2 = "Bearish" ->
               (IF c2.close < c1.low THEN {K("close_diff_prev_low", "Below")}
                ELSE IF c2.low > c1.low THEN {K("low_diff_prev_low", "Above")}
                ELSE IF c2.low < c1.low
                     THEN {K("low_diff_prev_low", "Below"), K("close_diff_prev_low", "Above")}
                     ELSE {})
               \cup
               (IF c2.high > c1.high THEN {K("high_diff_prev_high", "Above")}
                ELSE IF c2.high < top THEN {K("high_diff_prev_open", "Below")}
                ELSE IF c2.high < c1.high /\ c2.high > top
                     THEN {K("high_diff_prev_open", "Above"), K("high_diff_prev_high", "Below")}
                     ELSE {})
          [] d1 = "Bearish" /\ d2 = "Bullish" ->
               (IF c2.close > c1.high THEN {K("close_diff_prev_high", "Above")}
                ELSE IF c2.high < top THEN {K("high_diff_prev_open", "Below")}
                ELSE IF c2.high < c1.high /\ c2.high > top
                     THEN {K("high_diff_prev_high", "Below"), K("high_diff_prev_open", "Above"),
                           K("close_diff_prev_open",
                             IF c2.close > top THEN "Above" ELSE "Below")}
                     ELSE {})
               \cup
               (IF c2.low < c1.low THEN {K("low_diff_prev_low", "Below")}
                ELSE {K("low_diff_prev_low", "Above")})

\* CandleScienceFilterCalculator.build_position_filters
build_position_filters(candles) ==
    IF Len(candles) < 2 THEN EmptyDict
    ELSE DictOf(UNION {PairFilters(candles[i], candles[i + 1], i + 1) :
                          i \in 1..(Len(candles) - 1)})

\* CandleScienceFilterCalculator.build_all_filters
CandleScienceFilterCalculator_build_all_filters(candles) ==
    LET direction_filters == build_direction_filters(candles)
        position_filters == build_position_filters(candles)
    IN [k \in DOMAIN direction_filters \cup DOMAIN position_filters |->
          IF k \in DOMAIN position_filters THEN position_filters[k] ELSE direction_filters[k]]

\* FilterCalculator.build_all_filters, which node.py imports from
\* dataflow.indicators.filter_settings.filters: the direction of each candle
\* and the position of each candle against the one before it, as the
\* calculator of candle_science_filter_settings computes them
FilterCalculator_build_all_filters(candles) ==
    CandleScienceFilterCalculator_build_all_filters(candles)

\* deque.append without a maxlen
deque_append_unbounded(buf, maxlen, x) == Append(buf, x)

\* deque(maxlen=maxlen).append(x): the oldest item is discarded when full
deque_append(buf, maxlen, x) ==
    IF maxlen = 0 THEN buf
    ELSE IF Len(buf) = maxlen THEN Append(Tail(buf), x)
    ELSE Append(buf, x)

\* a fill test that is met one candle early
buffer_is_full_early(buf, size) == Len(buf) >= size - 1

\* len(state["buffer"]) == self.buffer_size
buffer_is_full(buf, size) == Len(buf) = size

\* CandleScienceFilterSettingsNode.init_state
init_state == [buffer |-> << >>, buffer_filled |-> FALSE]

\* the first value of inputs whose key starts with "candle_"
CandleKeys == {"candle_1m", "candle_5m"}
candle_data_of(inputs) ==
    IF DOMAIN inputs \cap CandleKeys = {} THEN None
    ELSE Some(inputs[CHOOSE k \in DOMAIN inputs \cap CandleKeys : TRUE])

\* CandleScienceFilterSettingsNode.compute: the state it leaves and the
\* output it returns
node_compute(inputs, state, size) ==
    LET candle_data == candle_data_of(inputs)
        NoOutput == [state |-> state, output |-> EmptyDict]
    IN  IF candle_data = None \/ candle_data = Some(EmptyDict) THEN NoOutput
        ELSE LET parsed == Candle_from_dict(Val(candle_data))
             IN IF parsed.raised THEN NoOutput
                ELSE LET c == parsed.candle
                         buf == deque_append(state.buffer, size, c)
                         filled == state.buffer_filled \/ buffer_is_full(buf, size)
                         after == [buffer |-> buf, buffer_filled |-> filled]
                         filters == FilterCalculator_build_all_filters(buf)
                     IN IF ~filled \/ filters = EmptyDict
                        THEN [state |-> after, output |-> EmptyDict]
                        ELSE [state |-> after,
                              output |-> [symbol |-> c.symbol,
                                          timestamp |-> isoformat(c.timestamp),
                                          timeframe |-> c.timeframe,
                                          filters |-> filters]]

\* the candles fed to the node; an up, a down and a flat candle that sits
\* inside the others
NodeCandles ==
    {c \in Candles : /\ c.timeframe = "1m" /\ c.timestamp = DateTime(60, TRUE)
                     /\ c.volume = 2 /\ c.tick_count = 1
                     /\ \/ c.high = 101 /\ c.low = 99 /\ c.open = 100 /\ c.close # 100
                        \/ c.high = 100 /\ c.low = 100}

\* what the executor hands to compute: no candle key, a candle key with an
\* empty payload, a payload without its close, a payload whose timestamp is
\* no date, or an encoded candle
NodeInputs ==
    {EmptyDict, [k \in {"ema_20"} |-> [value |-> 100]], [k \in {"candle_1m"} |-> EmptyDict]}
    \cup {[k \in {"candle_1m"} |-> Without(Candle_to_dict(c), "close")] :
             c \in {CHOOSE c \in NodeCandles : TRUE}}
    \cup {[k \in {"candle_1m"} |-> [Candle_to_dict(c) EXCEPT !.timestamp = NotADate]] :
             c \in {CHOOSE c \in NodeCandles : TRUE}}
    \cup {[k \in {"candle_1m"} |-> Candle_to_dict(c)] : c \in NodeCandles}

\* one compute call on the node, with the state the executor keeps for it
CandleScienceFilterSettingsNode_compute(inputs) ==
    /\ Len(returned) < MaxComputes
    /\ LET r == node_compute(inputs, [buffer |-> buffer, buffer_filled |-> buffer_filled],
                             buffer_size)
       IN /\ buffer' = r.state.buffer
          /\ buffer_filled' = r.state.buffer_filled
          /\ returned' = Append(returned, [inputs |-> inputs, output |-> r.output])
          /\ received' = IF candle_data_of(inputs) \notin {None, Some(EmptyDict)}
                            /\ ~Candle_from_dict(Val(candle_data_of(inputs))).raised
                         THEN Append(received,
                                     Candle_from_dict(Val(candle_data_of(inputs))).candle)
                         ELSE received
    /\ UNCHANGED <<buffer_size, candleVars, topicVars, sinkVars>>
    /\ UNCHANGED notLeaf

\* create_candle_science_filter_settings_node with the default buffer_size,
\* then init_state
NodeInit ==
    /\ buffer_size = 3
    /\ buffer = init_state.buffer
    /\ buffer_filled = init_state.buffer_filled
    /\ received = << >>
    /\ returned = << >>

NodeNext == \E inputs \in NodeInputs : CandleScienceFilterSettingsNode_compute(inputs)

-----------------------------------------------------------------------------
(* TimescaleDBSink (dataflow/persistence/sink.py)                          *)
MaxSinkMsgs == 2

\* the two subscriptions' callbacks (named by the kind of record they
\* buffer), the periodic flush task and the caller of stop()
Kinds == {"tick", "candle"}
SinkTasks == Kinds \cup {"periodic", "stop"}

\* the deliveries: a payload that parses, or one that does not
SinkPayloads == {"ok", "malformed"}

\* the outcomes of the database write of a flush
WriteOutcomes == {"ok", "raise"}

\* the sink's mutable state as one value, for the synchronous stretches
SinkState ==
    [lock |-> sink_lock, buffer |-> sink_buffer, pc |-> sink_pc, batch |-> sink_batch]

\* leaving `async with self._lock`: the lock is released and the task goes
\* back to waiting for its next message or wake-up, or stop() goes on to
\* close_db and returns
Release(t, S) ==
    [S EXCEPT !.lock = "free",
              !.pc[t] = CASE t \in Kinds -> "idle"
                          [] t = "periodic" -> "sleep"
                          [] t = "stop" -> "done"]

\* _flush_ticks / _flush_candles up to the await of the database write, and
\* what the caller does once the flush has returned
RECURSIVE Flush(_, _, _)
RECURSIVE AfterFlush(_, _, _)
Flush(t, k, S) ==
    IF S.buffer[k] = << >> THEN AfterFlush(t, k, S)
    ELSE [S EXCEPT !.batch[t] = S.buffer[k], !.buffer[k] = << >>, !.pc[t] = "write"]

AfterFlush(t, k, S) ==
    CASE t \in Kinds -> Release(t, S)
      [] t = "periodic" ->
            IF k = "tick" /\ S.buffer["candle"] # << >>
            THEN Flush(t, "candle", S) ELSE Release(t, S)
      [] t = "stop" ->
            IF k = "tick" THEN Flush(t, "candle", S) ELSE Release(t, S)

\* the body of `async with self._lock` of a callback, of _periodic_flush and
\* of stop(), entered with the lock
Locked(t, msg, S) ==
    CASE t \in Kinds ->
            LET T == [S EXCEPT !.buffer[t] = Append(@, msg)]
            IN IF Len(T.buffer[t]) >= batch_size THEN Flush(t, t, T) ELSE Release(t, T)
      [] t = "periodic" ->
            IF S.buffer["tick"] # << >> THEN Flush(t, "tick", S)
            ELSE AfterFlush(t, "tick", S)
      [] t = "stop" -> Flush(t, "tick", S)

\* `async with self._lock`: taken at once when free, waited for otherwise
Acquire(t, msg, S) ==
    IF S.lock = "free" THEN Locked(t, msg, [S EXCEPT !.lock = t])
    ELSE [S EXCEPT !.pc[t] = "acquire"]

\* the except branch of a flush: `async with self._lock`, then the batch goes
\* back in front of the buffer; the caller goes on when the flush returns
Requeue(t, S) ==
    IF S.lock = "free"
    THEN LET k == S.batch[t][1].kind
         IN AfterFlush(t, k, [S EXCEPT !.buffer[k] = S.batch[t] \o @, !.batch[t] = << >>])
    ELSE [S EXCEPT !.pc[t] = "requeue"]

SetSink(S) ==
    /\ sink_lock' = S.lock
    /\ sink_buffer' = S.buffer
    /\ sink_pc' = S.pc
    /\ sink_batch' = S.batch

\* _handle_tick / _handle_candle, up to the first await that suspends
sink_handle(h, payload) ==
    /\ sink_pc[h] = "idle"
    /\ delivered < MaxSinkMsgs
    /\ delivered' = delivered + 1
    /\ IF payload = "malformed"
       THEN UNCHANGED <<sink_lock, sink_buffer, sink_pc, sink_batch, sink_msg>>
       ELSE LET msg == [kind |-> h, id |-> delivered + 1]
            IN /\ SetSink(Acquire(h, msg, SinkState))
               /\ sink_msg' = [sink_msg EXCEPT ![h] = msg]
    /\ UNCHANGED <<batch_size, written, failed>>
    /\ UNCHANGED <<candleVars, topicVars, nodeVars>>
    /\ UNCHANGED notLeaf

\* _periodic_flush: the sleep is over
_periodic_flush ==
    /\ sink_pc["periodic"] = "sleep"
    /\ SetSink(Acquire("periodic", None, SinkState))
    /\ UNCHANGED <<batch_size, sink_msg, delivered, written, failed>>
    /\ UNCHANGED <<candleVars, topicVars, nodeVars>>
    /\ UNCHANGED notLeaf

\* a task waiting in `async with self._lock` is given the released lock
lock_acquired(t) ==
    /\ sink_pc[t] \in {"acquire", "requeue"}
    /\ sink_lock = "free"
    /\ IF sink_pc[t] = "acquire"
       THEN SetSink(Locked(t, IF t \in Kinds THEN sink_msg[t] ELSE None,
                           [SinkState EXCEPT !.lock = t]))
       ELSE SetSink(Requeue(t, SinkState))
    /\ UNCHANGED <<batch_size, sink_msg, delivered, written, failed>>
    /\ UNCHANGED <<candleVars, topicVars, nodeVars>>
    /\ UNCHANGED notLeaf

\* the database write of a flush ends: the batch is written, or the write
\* raised and the except branch runs
write_done(t, outcome) ==
    /\ sink_pc[t] = "write"
    /\ IF outcome = "ok"
       THEN /\ written' = written \cup Range(sink_batch[t])
            /\ UNCHANGED failed
            /\ SetSink(AfterFlush(t, sink_batch[t][1].kind,
                                  [SinkState EXCEPT !.batch[t] = << >>]))
       ELSE /\ failed' = failed \cup Range(sink_batch[t])
            /\ UNCHANGED written
            /\ SetSink(Requeue(t, SinkState))
    /\ UNCHANGED <<batch_size, sink_msg, delivered>>
    /\ UNCHANGED <<candleVars, topicVars, nodeVars>>
    /\ UNCHANGED notLeaf

\* stop(): the periodic task is cancelled where it waits (CancelledError is
\* no Exception: a task cancelled inside a flush leaves its `async with
\* self._lock`, which releases the lock, and its batch is dropped), then
\* stop() enters `async with self._lock`
sink_stop ==
    /\ sink_pc["stop"] = "idle"
    /\ LET held == sink_lock = "periodic"
           S == [SinkState EXCEPT !.pc["periodic"] = "cancelled",
                                  !.batch["periodic"] = << >>,
                                  !.lock = IF held THEN "free" ELSE @]
       IN SetSink(IF held /\ \E t \in SinkTasks : sink_pc[t] = "acquire"
                  THEN [S EXCEPT !.pc["stop"] = "acquire"]
                  ELSE Acquire("stop", None, S))
    /\ UNCHANGED <<batch_size, sink_msg, delivered, written, failed>>
    /\ UNCHANGED <<candleVars, topicVars, nodeVars>>
    /\ UNCHANGED notLeaf

\* TimescaleDBSink.__init__ with the default batch_size, then start()
SinkInit ==
    /\ batch_size = 100
    /\ sink_lock = "free"
    /\ sink_buffer = [k \in Kinds |-> << >>]
    /\ sink_pc = [t \in SinkTasks |-> IF t = "periodic" THEN "sleep" ELSE "idle"]
    /\ sink_msg = [k \in Kinds |-> None]
    /\ sink_batch = [t \in SinkTasks |-> << >>]
    /\ delivered = 0
    /\ written = {}
    /\ failed = {}

SinkNext ==
    \/ \E h \in Kinds, payload \in SinkPayloads : sink_handle(h, payload)
    \/ _periodic_flush
    \/ \E t \in SinkTasks : lock_acquired(t)
    \/ \E t \in SinkTasks, outcome \in WriteOutcomes : write_done(t, outcome)
    \/ sink_stop

-----------------------------------------------------------------------------
(* Specifications                                                          *)

DagInit ==
    /\ nodeDefs = [n \in NodeIds |-> << >>]
    /\ dagPc = "config"
    /\ buildError = NoError
    /\ adjacency = EmptyDict
    /\ reverse_deps = EmptyDict
    /\ topo_order = << >>

\* DAGExecutor.__init__: node_states from init_state(), node_outputs = {}
ExecInit ==
    /\ node_states = [n \in NodeIds |-> 0]
    /\ node_outputs = EmptyDict
    /\ execPc = "idle"
    /\ event = [type |-> "none", timeframe |-> "-", seq |-> 0]
    /\ pending = << >>
    /\ calls = << >>
    /\ nEvents = 0
    /\ replica_states = [n \in NodeIds |-> 0]
    /\ replica_outputs = EmptyDict
    /\ replica_pending = << >>
    /\ replica_calls = << >>

LeafInit == CandleInit /\ TopicsInit /\ NodeInit /\ SinkInit

Init == AggInit /\ DagInit /\ ExecInit /\ LoaderInit /\ CoordInit /\ LeafInit

\* a candle of the data model is drawn
InitCandle ==
    /\ AggInit /\ DagInit /\ ExecInit /\ LoaderInit /\ CoordInit /\ TopicsInit /\ NodeInit
    /\ SinkInit
    /\ original \in Candles
    /\ decoded = None

\* a symbol is drawn
InitTopics ==
    /\ AggInit /\ DagInit /\ ExecInit /\ LoaderInit /\ CoordInit /\ CandleInit /\ NodeInit
    /\ SinkInit
    /\ name \in Names
    /\ sanitized = None

\* a node is created with a buffer_size parameter
InitNode ==
    /\ AggInit /\ DagInit /\ ExecInit /\ LoaderInit /\ CoordInit /\ CandleInit /\ TopicsInit
    /\ SinkInit
    /\ buffer_size \in 1..MaxBufferSize
    /\ buffer = init_state.buffer
    /\ buffer_filled = init_state.buffer_filled
    /\ received = << >>
    /\ returned = << >>

\* reset_node_state, called between events on both executors; an unknown
\* id is logged and changes nothing
reset_node_state(node_id) ==
    /\ dagPc = "built"
    /\ execPc = "idle"
    /\ IF node_id \in NodeIds
       THEN /\ node_states' = [node_states EXCEPT ![node_id] = 0]
            /\ replica_states' = [replica_states EXCEPT ![node_id] = 0]
       ELSE UNCHANGED <<node_states, replica_states>>
    /\ UNCHANGED <<node_outputs, execPc, event, pending, calls, nEvents,
                   replica_outputs, replica_pending, replica_calls>>
    /\ UNCHANGED dagVars
    /\ UNCHANGED notDag

DagNext ==
    \/ \E n \in NodeIds, ref \in Refs : AddInput(n, ref)
    \/ build_dag
    \/ \E ev \in Events : ExecBegin(ev)
    \/ \E outcome \in Outcomes : ExecNode(outcome)

\* the aggregator alone
SpecAgg == Init /\ [][AggNext]_vars

\* the aggregator fed malformed payloads, on a bus whose publishes may fail
SpecAggFaults == Init /\ [][AggFaultNext]_vars

\* a pipeline is configured, built and then fed events
SpecDag == Init /\ [][DagNext]_vars

\* the pipelines of the runs with resets: a tick node with a dependent next
\* to a candle node, a chain fed by ticks and candles, and a node fed by two
\* others
ResetPipelines ==
    {[n \in NodeIds |->
         CASE n = "a" -> <<InputRef(TICK, "", None)>>
           [] n = "b" -> <<InputRef(INDICATOR, "a", None)>>
           [] n = "c" -> <<InputRef(CANDLE, "1m", None)>>],
     [n \in NodeIds |->
         CASE n = "a" -> <<InputRef(CANDLE, "1m", None), InputRef(TICK, "", None)>>
           [] n = "b" -> <<InputRef(INDICATOR, "a", None)>>
           [] n = "c" -> <<InputRef(INDICATOR, "b", None)>>],
     [n \in NodeIds |->
         CASE n = "a" -> <<InputRef(TICK, "", None)>>
           [] n = "b" -> <<InputRef(CANDLE, "1m", None)>>
           [] n = "c" -> <<InputRef(INDICATOR, "a", None), InputRef(INDICATOR, "b", None)>>]}

\* an executor over the built DAG of one of these pipelines
InitDagReset ==
    /\ AggInit /\ ExecInit /\ LoaderInit /\ CoordInit /\ LeafInit
    /\ nodeDefs \in ResetPipelines
    /\ dagPc = "built"
    /\ buildError = NoError
    /\ adjacency = DAGBuilder_build(nodeDefs).adjacency
    /\ reverse_deps = DAGBuilder_build(nodeDefs).reverse_deps
    /\ topo_order = DAGBuilder_build(nodeDefs).topo_order

DagResetNext ==
    \/ \E ev \in Events : ExecBegin(ev)
    \/ \E outcome \in Outcomes : ExecNode(outcome)
    \/ \E node_id \in NodeIds \cup {UnknownId} : reset_node_state(node_id)

\* an executor is fed events, with node states reset between events
SpecDagReset == InitDagReset /\ [][DagResetNext]_vars

\* a coordinator is constructed over a config directory, started, and fed
\* messages on its two subscriptions
SpecCoord == Init /\ [][CoordNext]_vars

\* YAML files are written and the pipeline is loaded from them
SpecLoader == Init /\ [][LoaderNext]_vars

\* a sink is created with a batch size and started
InitSink ==
    /\ AggInit /\ DagInit /\ ExecInit /\ LoaderInit /\ CoordInit
    /\ CandleInit /\ TopicsInit /\ NodeInit
    /\ batch_size \in {1, MaxSinkMsgs}
    /\ sink_lock = "free"
    /\ sink_buffer = [k \in Kinds |-> << >>]
    /\ sink_pc = [t \in SinkTasks |-> IF t = "periodic" THEN "sleep" ELSE "idle"]
    /\ sink_msg = [k \in Kinds |-> None]
    /\ sink_batch = [t \in SinkTasks |-> << >>]
    /\ delivered = 0
    /\ written = {}
    /\ failed = {}

\* the sink is fed messages, its timer fires, its writes end, it is stopped
SpecSink == InitSink /\ [][SinkNext]_vars

\* a candle is encoded and decoded
SpecCandle == InitCandle /\ [][CandleNext]_vars

\* a symbol is sanitized
SpecTopics == InitTopics /\ [][TopicsNext]_vars

\* a reference node is fed the inputs of successive events
SpecNode == InitNode /\ [][NodeNext]_vars


-----------------------------------------------------------------------------
(* Properties of the DAG builder and executor                              *)

\* the nodes n depends on: the sources of its INDICATOR inputs
Dependencies(n) ==
    {nodeDefs[n][k].source : k \in {k \in DOMAIN nodeDefs[n] : nodeDefs[n][k].type = INDICATOR}}

\* S with every node that depends, directly or not, on a node of S
RECURSIVE DependentsClosure(_)
DependentsClosure(S) ==
    LET T == S \cup {n \in NodeIds : Dependencies(n) \cap S # {}}
    IN IF T = S THEN S ELSE DependentsClosure(T)

\* the impacted set of an event as the specification defines it
ImpactedSet(ev) ==
    DependentsClosure({n \in NodeIds :
        \E k \in DOMAIN nodeDefs[n] :
            /\ nodeDefs[n][k].type = ev.type
            /\ ev.type = CANDLE => nodeDefs[n][k].source = ev.timeframe})

Called == {calls[i].node : i \in DOMAIN calls}

\* the last INDICATOR input of n whose source is m (later inputs overwrite the key)
LastRefTo(n, m) ==
    LET ks == {k \in DOMAIN nodeDefs[n] :
                  nodeDefs[n][k].type = INDICATOR /\ nodeDefs[n][k].source = m}
    IN nodeDefs[n][CHOOSE k \in ks : \A j \in ks : j <= k]

\* C6: in an accepted graph every node comes after all the nodes it depends on
\* in topo_order.
C6_TopoOrderAfterDependencies ==
    dagPc = "built" =>
        \A v \in NodeIds : \A u \in Range(adjacency[v]) :
            IndexOf(topo_order, u) < IndexOf(topo_order, v)

\* C7: within an event, every INDICATOR dependency of an executed node that is
\* in the impacted set has had its compute call before the node's own.
C7_DependenciesComputedFirst ==
    \A i \in DOMAIN calls :
        \A d \in Dependencies(calls[i].node) \cap ImpactedSet(event) :
            \E j \in 1..(i - 1) : calls[j].node = d

\* C8: when m and n both ran in an event, n has an INDICATOR input from m and
\* m's compute returned a non-empty output, n's inputs hold under key m that
\* output (the whole mapping, or output[field] for an input with a field).
C8_DependentReceivesOutput ==
    \A i, j \in DOMAIN calls :
        (calls[j].outcome = "ok" /\ calls[j].node \in Dependencies(calls[i].node))
        => LET m == calls[j].node
               ref == LastRefTo(calls[i].node, m)
           IN /\ m \in DOMAIN calls[i].inputs
              /\ calls[i].inputs[m] = IF ref.field = None THEN node_outputs[m]
                                      ELSE node_outputs[m][Val(ref.field)]

\* C9: a finished CANDLE event with timeframe T has called compute for exactly
\* the nodes with an input CANDLE:T and their transitive dependents, each once;
\* while it runs, only such nodes are called and none twice.
C9_CandleEventRunsExactlyImpacted ==
    (dagPc = "built" /\ event.type = CANDLE) =>
        /\ Called \subseteq ImpactedSet(event)
        /\ \A i, j \in DOMAIN calls : i # j => calls[i].node # calls[j].node
        /\ execPc = "idle" => Called = ImpactedSet(event)

\* the 1m candle event of a pipeline with a tick consumer, a 1m candle
\* consumer and a dependent of the latter has run the latter two only
C9_Witness ==
    /\ execPc = "idle"
    /\ event.type = CANDLE
    /\ event.timeframe = "1m"
    /\ Cardinality(Called) = 2
    /\ \E t \in NodeIds \ Called : \E k \in DOMAIN nodeDefs[t] : nodeDefs[t][k].type = TICK
    /\ \E n \in Called : Dependencies(n) \cap Called # {}

\* C10: a compute that raises is caught: the node's output is recorded as the
\* empty mapping, every impacted node still runs in the dispatch, and a node
\* with an INDICATOR input from the failed node has no key for it in its inputs.
C10_ComputeFailureContained ==
    /\ \A i \in DOMAIN calls :
          calls[i].outcome = "raise" =>
              /\ calls[i].node \in DOMAIN node_outputs
              /\ node_outputs[calls[i].node] = EmptyDict
              /\ \A j \in DOMAIN calls :
                    calls[i].node \in Dependencies(calls[j].node)
                    => calls[i].node \notin DOMAIN calls[j].inputs
    /\ (dagPc = "built" /\ execPc = "idle" /\ nEvents > 0) => Called = _get_impacted_nodes(event)

\* a dispatch in which a compute raised, another node ran after it, and a node
\* depending on the failed one ran as well
C10_Witness ==
    /\ execPc = "idle"
    /\ \E i, j, k \in DOMAIN calls :
          /\ calls[i].outcome = "raise"
          /\ i < j
          /\ calls[i].node \in Dependencies(calls[k].node)

\* C11: node_outputs holds entries only for nodes called in the current event
\* (all of them in its impacted set), every non-empty entry is the output of
\* the node's call in this event (its value is the node's current call count),
\* and an INDICATOR value in a call's inputs comes from a call made earlier in
\* the same event.
C11_NoOutputLeaksAcrossEvents ==
    /\ DOMAIN node_outputs \subseteq Called
    /\ DOMAIN node_outputs \subseteq ImpactedSet(event)
    /\ \A n \in DOMAIN node_outputs :
          node_outputs[n] # EmptyDict => node_outputs[n].value = node_states[n]
    /\ \A i \in DOMAIN calls : \A m \in DOMAIN calls[i].inputs \cap NodeIds :
          \E j \in 1..(i - 1) : calls[j].node = m /\ calls[j].outcome = "ok"

\* a second event has finished with an output, and a node that ran in the
\* first event only has no entry left
C11_Witness ==
    /\ nEvents = 2
    /\ execPc = "idle"
    /\ \E n \in DOMAIN node_outputs : node_outputs[n] # EmptyDict
    /\ \E n \in NodeIds \ DOMAIN node_outputs : node_states[n] > 0

\* the nodes reachable from S along INDICATOR dependencies, S included
RECURSIVE DependencyClosure(_)
DependencyClosure(S) ==
    LET T == S \cup UNION {Dependencies(n) : n \in S \cap NodeIds}
    IN IF T = S THEN S ELSE DependencyClosure(T)

\* n depends on itself, directly or through other nodes
OnCycle(n) == n \in DependencyClosure(Dependencies(n))

\* some INDICATOR input names a source that is no node of the pipeline
SomeUnknownSource == \E n \in NodeIds : Dependencies(n) \ NodeIds # {}

\* C12: a graph with a dependency cycle (a self-dependency included) is
\* rejected, with the cycle error unless an unknown source was met first; the
\* path of a cycle error starts and ends at the same node, follows dependency
\* edges and repeats no other node; a <-> b gives a, b, a.
C12_CyclicGraphRejected ==
    dagPc # "config" =>
        /\ (\E n \in NodeIds : OnCycle(n)) =>
              /\ dagPc = "rejected"
              /\ ~SomeUnknownSource => buildError.kind = "cycle"
        /\ buildError.kind = "cycle" =>
              LET p == buildError.path IN
              /\ Len(p) >= 2
              /\ p[1] = p[Len(p)]
              /\ OnCycle(p[1])
              /\ \A i \in 1..(Len(p) - 1) : p[i + 1] \in Dependencies(p[i])
              /\ \A i, j \in 1..(Len(p) - 1) : i # j => p[i] # p[j]
        /\ (Dependencies("a") = {"b"} /\ Dependencies("b") = {"a"} /\ ~SomeUnknownSource)
              => buildError.path = <<"a", "b", "a">>

\* a graph whose cycle b <-> c is entered from a has been rejected with the
\* path of the cycle alone
C12_Witness ==
    /\ dagPc = "rejected"
    /\ buildError.kind = "cycle"
    /\ Len(buildError.path) = 3
    /\ "a" \notin Range(buildError.path)
    /\ Dependencies("a") # {}

\* C16: a graph in which some INDICATOR input names a source that is no node
\* id is rejected for that reason, and the edges of adjacency and reverse_deps
\* are exactly the INDICATOR dependencies: TICK and CANDLE inputs add none.
C16_UnknownSourceRejected ==
    /\ (dagPc # "config" /\ SomeUnknownSource) =>
          (dagPc = "rejected" /\ buildError.kind = "unknown")
    /\ \A n \in DOMAIN adjacency : Range(adjacency[n]) = Dependencies(n)
    /\ \A m \in DOMAIN reverse_deps :
          reverse_deps[m] \subseteq {n \in NodeIds : m \in Dependencies(n)}
    /\ dagPc = "built" =>
          \A m \in NodeIds : Get(reverse_deps, m, {}) = {n \in NodeIds : m \in Dependencies(n)}

\* a graph was rejected for an unknown source after a node with a TICK or
\* CANDLE input had been entered in adjacency with no edge
C16_Witness ==
    /\ dagPc = "rejected"
    /\ buildError.kind = "unknown"
    /\ \E n \in DOMAIN adjacency :
          /\ adjacency[n] = << >>
          /\ \E k \in DOMAIN nodeDefs[n] : nodeDefs[n][k].type \in {TICK, CANDLE}


-----------------------------------------------------------------------------
(* Properties of the loader                                                *)

\* the indicator and strategy entries of the files, as <<file, position>>
IndicatorEntries ==
    UNION {{<<f, k>> : k \in DOMAIN configs[f].indicators} : f \in DOMAIN configs}

StrategyEntries ==
    UNION {{<<f, k>> : k \in DOMAIN configs[f].strategies} : f \in DOMAIN configs}

Ind(e) == configs[e[1]].indicators[e[2]]

Strat(e) == configs[e[1]].strategies[e[2]]

\* two indicator entries share an id and differ in type, params or inputs
ConflictingIndicators ==
    \E e1, e2 \in IndicatorEntries :
        /\ Ind(e1).id = Ind(e2).id
        /\ Ind(e1) # Ind(e2)

\* two strategy entries share an id
DuplicateStrategies ==
    \E e1, e2 \in StrategyEntries : e1 # e2 /\ Strat(e1).id = Strat(e2).id

\* C13: a load over files in which two indicator entries share an id and
\* differ in type, params or inputs fails (with the conflict error unless a
\* duplicate strategy was met first); the conflict error is raised only for
\* such a pair, never for identical entries; and a load that succeeds returns
\* exactly one indicator NodeDef per declared indicator id, with the declared
\* type and params.
C13_IndicatorMerge ==
    loadPc # "config" =>
        /\ ConflictingIndicators =>
              /\ loadPc = "failed"
              /\ loadError.kind \in {"conflict", "duplicate"}
              /\ ~DuplicateStrategies => loadError.kind = "conflict"
        /\ loadError.kind = "conflict" =>
              \E e1, e2 \in IndicatorEntries :
                  /\ Ind(e1).id = loadError.id
                  /\ Ind(e2).id = loadError.id
                  /\ Ind(e1) # Ind(e2)
        /\ loadPc \in {"loaded", "built"} =>
              \A e \in IndicatorEntries :
                  LET ks == {k \in DOMAIN node_defs :
                                /\ node_defs[k].id = Ind(e).id
                                /\ node_defs[k].outputs = <<"value">>}
                  IN /\ Cardinality(ks) = 1
                     /\ \A k \in ks : /\ node_defs[k].type = Ind(e).type
                                      /\ node_defs[k].params = Ind(e).params
                                      /\ Len(node_defs[k].inputs) = Len(Ind(e).inputs)

\* two files declare the same indicator identically and the load returned
\* one NodeDef
C13_Witness ==
    /\ loadPc = "loaded"
    /\ Len(node_defs) = 1
    /\ \E e1, e2 \in IndicatorEntries : e1[1] # e2[1] /\ Ind(e1) = Ind(e2)

\* C14: a load over files in which two strategy entries share an id fails,
\* whether the entries are in one file or in two and whether or not they are
\* identical (with the duplicate error unless an indicator conflict was met
\* first).
C14_DuplicateStrategyFails ==
    (loadPc # "config" /\ DuplicateStrategies) =>
        /\ loadPc = "failed"
        /\ loadError.kind \in {"conflict", "duplicate"}
        /\ ~ConflictingIndicators => loadError.kind = "duplicate"

\* the load failed on two identical strategy entries of different files
C14_Witness ==
    /\ loadPc = "failed"
    /\ loadError.kind = "duplicate"
    /\ \E e1, e2 \in StrategyEntries : e1[1] # e2[1] /\ Strat(e1) = Strat(e2)

\* C15: the NodeDef list of a successful load holds no two NodeDefs with the
\* same id, and every NodeDef of the list is the one DAGBuilder keeps under
\* its id.
C15_NodeIdsUnique ==
    /\ loadPc \in {"loaded", "built"} =>
          \A i, j \in DOMAIN node_defs : i # j => node_defs[i].id # node_defs[j].id
    /\ loadPc = "built" =>
          \A k \in DOMAIN node_defs : nodes[node_defs[k].id] = node_defs[k]

-----------------------------------------------------------------------------
(* Properties of the aggregator                                            *)

Align(t, tf) == (t \div TIMEFRAMES[tf]) * TIMEFRAMES[tf]

RECURSIVE MaxPrice(_)
MaxPrice(ts) == IF Len(ts) = 1 THEN ts[1].price ELSE Max(ts[1].price, MaxPrice(Tail(ts)))

RECURSIVE MinPrice(_)
MinPrice(ts) == IF Len(ts) = 1 THEN ts[1].price ELSE Min(ts[1].price, MinPrice(Tail(ts)))

RECURSIVE SumVolume(_)
SumVolume(ts) ==
    IF ts = << >> THEN 0
    ELSE (IF ts[1].volume = None THEN 0 ELSE Val(ts[1].volume)) + SumVolume(Tail(ts))

\* the candles handed to the bus by this step
NewlyPublished == {published'[i].candle : i \in (Len(published) + 1)..Len(published')}
\* the candles this step put into a list awaiting publish
NewlyQueued == {sweepQueue'[i].candle : i \in DOMAIN sweepQueue'} \
               {sweepQueue[i].candle : i \in DOMAIN sweepQueue}

\* C1: a tick whose aligned start differs from the start of the existing,
\* non-empty builder gets that builder finalized and published (or enqueued for
\* publish) within the handling of that tick.
C1_BoundaryTickPublishesOld ==
    [][\A tf \in TfSet :
          (/\ handled' # handled
           /\ tf \in DOMAIN builders
           /\ ~is_empty(builders[tf])
           /\ builders'[tf].start_time.t # builders[tf].start_time.t)
          => build(builders[tf]) \in (NewlyPublished \cup NewlyQueued)]_vars

\* C2: once stop() has completed, every W-aligned interval that received a tick
\* has a published candle, for every configured timeframe.
C2_EveryTickedIntervalPublished ==
    stopPc = "done" =>
        \A i \in DOMAIN handled : \A tf \in TfSet :
            \E j \in DOMAIN published :
                /\ published[j].candle.timeframe = tf
                /\ published[j].candle.timestamp.t = Align(handled[i], tf)

\* C3: no two published candles carry the same (symbol, timeframe, start).
C3_NoCandleTwice ==
    \A i, j \in DOMAIN published :
        (i < j /\ published[i].candle.timeframe = published[j].candle.timeframe
               /\ published[i].candle.symbol = published[j].candle.symbol)
        => published[i].candle.timestamp.t # published[j].candle.timestamp.t

\* C4: per (symbol, timeframe) the published candles have strictly increasing
\* start times.
C4_StartsStrictlyIncreasing ==
    \A i, j \in DOMAIN published :
        (i < j /\ published[i].candle.timeframe = published[j].candle.timeframe
               /\ published[i].candle.symbol = published[j].candle.symbol)
        => published[i].candle.timestamp.t < published[j].candle.timestamp.t

\* C5: every emitted candle summarizes exactly the ticks folded into its
\* builder: open is the first price, close the last, high the maximum, low the
\* minimum, volume the sum of the volumes (None counted as 0), tick_count the
\* number of ticks.
C5_CandleSummarizesTicks ==
    \A e \in Range(published) \cup Range(sweepQueue) :
        /\ Len(e.ticks) >= 1
        /\ e.candle.open = e.ticks[1].price
        /\ e.candle.close = e.ticks[Len(e.ticks)].price
        /\ e.candle.high = MaxPrice(e.ticks)
        /\ e.candle.low = MinPrice(e.ticks)
        /\ e.candle.volume = SumVolume(e.ticks)
        /\ e.candle.tick_count = Len(e.ticks)

\* a published candle of three ticks whose high, low, open all differ and
\* whose ticks include one without volume and one with
C5_Witness ==
    \E e \in Range(published) :
        /\ e.candle.tick_count = 3
        /\ e.candle.high > e.candle.open
        /\ e.candle.low < e.candle.open
        /\ \E k \in DOMAIN e.ticks : e.ticks[k].volume = None
        /\ e.candle.volume > 0

\* C17: a sweep wake-up that finds a non-empty builder whose interval has
\* ended (now >= start + W) takes its candle for publication (for a single
\* tick of price p: open = high = low = close = p, tick_count = 1) and
\* replaces it with an empty builder anchored at floor(now/W)*W.
C17_SweepPublishesDueBuilder ==
    [][SweepWake =>
          \A tf \in DOMAIN builders :
              (~is_empty(builders[tf]) /\ now >= builders[tf].start_time.t + TIMEFRAMES[tf])
              => /\ \E k \in DOMAIN sweepQueue' :
                       /\ sweepQueue'[k].candle = build(builders[tf])
                       /\ Len(folded[tf]) = 1 =>
                             LET c == sweepQueue'[k].candle
                                 p == folded[tf][1].price
                             IN c.open = p /\ c.high = p /\ c.low = p /\ c.close = p
                                /\ c.tick_count = 1
                 /\ is_empty(builders'[tf])
                 /\ builders'[tf].start_time.t = Align(now, tf)]_vars

\* C18: every candle published by the sweep or by stop(), and every candle
\* waiting for its publish, has low <= open <= high, low <= close <= high,
\* tick_count >= 1 and volume >= 0.
C18_PublishedCandleWellFormed ==
    \A c \in {published[i].candle : i \in DOMAIN published}
             \cup {sweepQueue[i].candle : i \in DOMAIN sweepQueue} :
        /\ c.low <= c.open /\ c.open <= c.high
        /\ c.low <= c.close /\ c.close <= c.high
        /\ c.tick_count >= 1
        /\ c.volume >= 0

\* stop() has published a candle of three ticks whose open and close lie
\* strictly inside its range on one side each
C18_Witness ==
    \E i \in DOMAIN published :
        /\ published[i].path = "stop"
        /\ published[i].candle.tick_count = 3
        /\ published[i].candle.low < published[i].candle.open
        /\ published[i].candle.close < published[i].candle.high
        /\ published[i].candle.volume > 0

\* C19: the start of every builder is a multiple of its timeframe's width,
\* every tick folded into a builder lies in [start, start + W), and so does
\* every tick of a published candle, whose timestamp is a multiple of W.
C19_BuildersAligned ==
    /\ \A tf \in DOMAIN builders :
          /\ builders[tf].start_time.t % TIMEFRAMES[tf] = 0
          /\ \A k \in DOMAIN folded[tf] :
                /\ builders[tf].start_time.t = Align(folded[tf][k].timestamp.t, tf)
                /\ builders[tf].start_time.t <= folded[tf][k].timestamp.t
                /\ folded[tf][k].timestamp.t < builders[tf].start_time.t + TIMEFRAMES[tf]
    /\ \A i \in DOMAIN published :
          LET c == published[i].candle
              W == TIMEFRAMES[c.timeframe]
          IN /\ c.timestamp.t % W = 0
             /\ \A k \in DOMAIN published[i].ticks :
                   /\ c.timestamp.t <= published[i].ticks[k].timestamp.t
                   /\ published[i].ticks[k].timestamp.t < c.timestamp.t + W

\* the sweep has published a candle and left an empty builder at a later
\* boundary, while another builder holds two ticks
C19_Witness ==
    /\ \E i \in DOMAIN published : published[i].path = "sweep"
    /\ \E tf \in DOMAIN builders :
          is_empty(builders[tf]) /\ builders[tf].start_time.t > 0
    /\ \E tf \in DOMAIN builders : Len(folded[tf]) >= 2

\* C20: no candle is published while the aggregator's lock is held, on the
\* sweep path or in the stop() flush.
C20_NoPublishUnderLock ==
    \A i \in DOMAIN published : ~published[i].locked

\* C21: handling a malformed payload (undecodable, or without symbol,
\* timestamp or price) leaves the builder table, the candles awaiting publish
\* and the publish history as they were; and a well-formed tick handled after
\* a malformed payload is folded into the builder of its interval for every
\* timeframe.
C21_MalformedPayloadDropped ==
    [][/\ malformed' # malformed =>
             /\ builders' = builders
             /\ folded' = folded
             /\ handled' = handled
             /\ sweepQueue' = sweepQueue
             /\ published' = published
       /\ (malformed # << >> /\ handled' # handled) =>
             \A tf \in TfSet :
                 LET t == handled'[Len(handled')] IN
                 /\ tf \in DOMAIN builders'
                 /\ builders'[tf].start_time.t = Align(t, tf)
                 /\ builders'[tf].tick_count = Len(folded'[tf])
                 /\ folded'[tf][Len(folded'[tf])].timestamp.t = t
                 /\ builders'[tf].close = Some(folded'[tf][Len(folded'[tf])].price)]_vars

\* a malformed payload arrived after the first tick, and the second tick was
\* folded into the builder the first one had opened
C21_Witness ==
    /\ malformed = <<1>>
    /\ Len(handled) = 2
    /\ \E tf \in DOMAIN builders : Len(folded[tf]) = 2 /\ builders[tf].tick_count = 2

\* C22: no finalized candle is handed to the bus twice; and when a publish of
\* the sweep fails, the candle leaves the list of candles to publish, the
\* builder table is not touched and already holds another builder for that
\* timeframe, and the sweep task stays alive with the rest of its list.
C22_FailedPublishNotRetried ==
    [][published' # published =>
          /\ \A i, j \in DOMAIN published' :
                i < j => ~(/\ published'[i].candle.timeframe = published'[j].candle.timeframe
                           /\ published'[i].ticks = published'[j].ticks)
          /\ LET e == published'[Len(published')]
                 tf == e.candle.timeframe
             IN (e.failed /\ e.path = "sweep") =>
                   /\ sweepQueue' = Tail(sweepQueue)
                   /\ sweep' = "running"
                   /\ builders' = builders
                   /\ \A k \in DOMAIN folded[tf] : folded[tf][k] \notin Range(e.ticks)]_vars

\* a publish of the sweep failed and the sweep published another candle after it
C22_Witness ==
    \E i, j \in DOMAIN published :
        /\ i < j
        /\ published[i].failed
        /\ published[i].path = "sweep"
        /\ published[j].path = "sweep"

\* C23: when stop() is over, every builder that is non-empty has had its
\* candle published by the flush; and once the sweep is cancelled no candle of
\* the sweep awaits publish.
C23_StopFlushesEveryBuilder ==
    /\ stopPc \in {"done", "raised"} =>
          \A tf \in DOMAIN builders :
              ~is_empty(builders[tf]) =>
                  \E i \in DOMAIN published :
                      /\ published[i].path = "stop"
                      /\ published[i].candle = build(builders[tf])
    /\ sweep = "cancelled" => sweepQueue = << >>

\* an input of a NodeDef consumes the event: same type and, for a candle,
\* the event's timeframe
ConsumesEvent(inp, ev) ==
    \/ inp.type = TICK /\ ev.type = TICK
    \/ inp.type = CANDLE /\ ev.type = CANDLE /\ inp.source = ev.timeframe

NoNodeConsumes(ev) ==
    \A n \in NodeIds : \A k \in DOMAIN nodeDefs[n] : ~ConsumesEvent(nodeDefs[n][k], ev)

\* C24: an execute_event whose event no node input matches makes no compute
\* call, leaves every node's state as it was, and is over at once.
C24_UnmatchedEventNoCompute ==
    [][(nEvents' # nEvents /\ NoNodeConsumes(event')) =>
          /\ node_states' = node_states
          /\ calls' = << >>
          /\ pending' = << >>
          /\ execPc' = "idle"]_vars

\* a second event that no node consumes, in a DAG whose nodes computed on the
\* first event and one of which takes candles of another timeframe
C24_Witness ==
    /\ nEvents = 2
    /\ execPc = "idle"
    /\ NoNodeConsumes(event)
    /\ event.type = CANDLE
    /\ \E n \in NodeIds : \E k \in DOMAIN nodeDefs[n] : nodeDefs[n][k].type = CANDLE
    /\ \E n \in NodeIds : node_states[n] > 0
    /\ calls = << >>

\* C25: two executors over the same DAG that are fed the same events, with
\* nodes that answer alike, have executed the same nodes in the same order
\* with the same inputs, and hold the same node_outputs and node_states,
\* after every node of every event.
C25_ExecutionDeterministic ==
    /\ replica_calls = calls
    /\ replica_pending = pending
    /\ replica_outputs = node_outputs
    /\ replica_states = node_states

\* the second event is over, and it ran two nodes or more
C25_Witness ==
    /\ nEvents = 2
    /\ execPc = "idle"
    /\ Len(calls) >= 2
    /\ replica_calls = calls
    /\ \E n \in NodeIds : replica_states[n] = 2

-----------------------------------------------------------------------------
(* Properties of the coordinator                                           *)

\* C26: at most one callback of the coordinator is inside execute_event, and
\* it holds the thread from the first node of the event to the last: no
\* execute_event starts, and no compute runs, while another execute_event is
\* under way.
C26_ExecutionSerial ==
    /\ \A h1, h2 \in Handlers : (hpc[h1] = "exec" /\ hpc[h2] = "exec") => h1 = h2
    /\ \A h \in Handlers : hpc[h] = "exec" => running = h
    /\ running # "none" => hpc[running] = "exec"

\* the candle callback runs the second event while the tick callback is
\* suspended in a publish of the first
C26_Witness ==
    /\ hpc[TICK] = "publish"
    /\ hpc[CANDLE] = "exec"
    /\ hevent[TICK].seq = 1
    /\ hevent[CANDLE].seq = 2
    /\ hpending[CANDLE] # horder[CANDLE]
    /\ \E n \in NodeIds : node_states[n] = 2

\* C27: the delivery of a payload that decodes and whose symbol is not the
\* coordinator's starts no execute_event, changes no node state and no
\* node_outputs, and publishes nothing; and every message _publish_outputs
\* sends is for a payload with the coordinator's symbol.
C27_WrongSymbolDropped ==
    [][/\ (/\ msgs' # msgs
           /\ msgs'[Len(msgs')].payload.decodable
           /\ msgs'[Len(msgs')].payload.symbol # <<self_symbol>>) =>
             /\ nEvents' = nEvents
             /\ node_states' = node_states
             /\ node_outputs' = node_outputs
             /\ sent' = sent
             /\ hpc' = hpc
       /\ \A i \in DOMAIN sent' :
             msgs'[sent'[i].msg].payload.symbol = <<self_symbol>>]_vars

\* a payload for the other symbol of the same topic arrived after an event
\* that left outputs, and these are still there
C27_Witness ==
    /\ Len(msgs) = 2
    /\ msgs[2].payload.symbol = <<OtherSymbol>>
    /\ nEvents = 1
    /\ node_outputs # EmptyDict
    /\ \E n \in NodeIds : node_states[n] > 0

\* the topic segment of the coordinator's symbol
SymbolSegment == <<"E", "S", "_", "1">>

\* the topic the output of a node belongs on
ExpectedTopic(n) ==
    LET type == nodes[n].type IN
    IF type[Len(type)] = "Strategy"
       \/ type \in {<<"Liquidity", "Breakout">>, <<"Breakout">>, <<"Mean", "Reversion">>}
    THEN [prefix |-> "strategies.signals", symbol |-> SymbolSegment, rest |-> n]
    ELSE [prefix |-> "indicators", symbol |-> SymbolSegment, rest |-> n]

\* no callback is still working on this event
Completed(seq) == \A h \in Handlers : hpc[h] = "idle" \/ hevent[h].seq # seq

SentFor(seq, n) == {i \in DOMAIN sent : sent[i].seq = seq /\ sent[i].node_id = n}

\* C28: every message the coordinator hands to the bus for an event carries a
\* non-empty output of that event on the topic of its node, strategy topic
\* for a strategy type and indicator topic otherwise; and once the callback
\* is over, each node with a non-empty output has exactly one message and
\* each other node has none.
C28_OneMessagePerOutput ==
    \A seq \in 1..nEvents :
        /\ \A i \in DOMAIN sent :
              sent[i].seq = seq =>
                  /\ sent[i].node_id \in DOMAIN produced[seq]
                  /\ sent[i].output = produced[seq][sent[i].node_id]
                  /\ sent[i].output # EmptyDict
                  /\ sent[i].topic = ExpectedTopic(sent[i].node_id)
        /\ Completed(seq) =>
              \A n \in NodeIds :
                  Cardinality(SentFor(seq, n)) =
                      IF n \in DOMAIN produced[seq] /\ produced[seq][n] # EmptyDict
                      THEN 1 ELSE 0

\* an event is over that gave a strategy message, an indicator message, and an
\* empty output that was not sent; and a type that only starts with
\* "Strategy" went to an indicator topic
C28_Witness ==
    \E seq \in 1..nEvents :
          /\ Completed(seq)
          /\ \E i, j \in DOMAIN sent :
                /\ sent[i].seq = seq /\ sent[i].topic.prefix = "strategies.signals"
                /\ sent[j].seq = seq /\ sent[j].topic.prefix = "indicators"
          /\ \E n \in DOMAIN produced[seq] : produced[seq][n] = EmptyDict
          /\ nodes["c"].type = <<"Breakout">>
          /\ nEvents = 2

\* C29: a started coordinator holds the tick subscription exactly when some
\* loaded NodeDef has a TICK input and the candle subscription exactly when
\* some loaded NodeDef has a CANDLE input.
C29_SubscribesWhatNodeDefsNeed ==
    coordPc = "started" =>
        /\ (\E sub \in subscriptions :
               sub.topic = [prefix |-> "ticks.raw", symbol |-> SymbolSegment, rest |-> ""])
           <=> (\E k \in DOMAIN node_defs :
                   \E j \in DOMAIN node_defs[k].inputs : node_defs[k].inputs[j].type = TICK)
        /\ (\E sub \in subscriptions :
               sub.topic = [prefix |-> "candles", symbol |-> SymbolSegment, rest |-> "*"])
           <=> (\E k \in DOMAIN node_defs :
                   \E j \in DOMAIN node_defs[k].inputs : node_defs[k].inputs[j].type = CANDLE)

\* the ids the files declare, and what an id is declared to depend on
DeclaredIds ==
    {Ind(e).id : e \in IndicatorEntries} \cup {Strat(e).id : e \in StrategyEntries}

InvalidInputDeclared ==
    \E e \in IndicatorEntries :
        \E k \in DOMAIN Ind(e).inputs : ~({"type", "source"} \subseteq DOMAIN Ind(e).inputs[k])

DeclaredSources(id) ==
    UNION {{Ind(e).inputs[k].source : k \in {j \in DOMAIN Ind(e).inputs :
                                                Ind(e).inputs[j].type = INDICATOR}} :
              e \in {x \in IndicatorEntries : Ind(x).id = id}}
    \cup UNION {Range(Strat(e).depends_on) : e \in {x \in StrategyEntries : Strat(x).id = id}}

RECURSIVE SourcesClosure(_, _)
SourcesClosure(ids, n) ==
    IF n = 0 THEN ids
    ELSE SourcesClosure(ids \cup UNION {DeclaredSources(x) : x \in ids}, n - 1)

\* the files hold one of the errors a coordinator must not start with
ConfigError ==
    \/ ConflictingIndicators
    \/ DuplicateStrategies
    \/ InvalidInputDeclared
    \/ /\ ~InvalidInputDeclared
       /\ \/ \E id \in DeclaredIds : DeclaredSources(id) \ DeclaredIds # {}
          \/ \E id \in DeclaredIds :
                id \in SourcesClosure(DeclaredSources(id), Cardinality(DeclaredIds))
    \/ \E e \in IndicatorEntries : Ind(e).type \notin Registered
    \/ \E e \in StrategyEntries : Strat(e).type \notin Registered

\* C30: a coordinator over files with a conflicting indicator, a duplicate
\* strategy, an unknown indicator source, a cycle, an unknown node type or an
\* invalid input spec is never constructed: it makes no subscription and runs
\* no compute.
C30_ConfigErrorsFatal ==
    ConfigError =>
        /\ coordPc = "failed"
        /\ subscriptions = {}
        /\ \A n \in NodeIds : node_states[n] = 0

\* C31: the delivery of bytes that do not decode starts no execute_event,
\* changes no node state and no node_outputs, publishes nothing, and leaves
\* the callbacks and the subscriptions as they were; and a payload that
\* decodes with the coordinator's symbol, delivered after such bytes, starts
\* an execute_event on a fresh node_outputs.
C31_DecodeErrorContained ==
    [][/\ (msgs' # msgs /\ ~msgs'[Len(msgs')].payload.decodable) =>
             /\ nEvents' = nEvents
             /\ node_states' = node_states
             /\ node_outputs' = node_outputs
             /\ heap' = heap
             /\ sent' = sent
             /\ hpc' = hpc
             /\ running' = running
             /\ subscriptions' = subscriptions
       /\ (/\ msgs' # msgs
           /\ \E i \in DOMAIN msgs : ~msgs[i].payload.decodable
           /\ msgs'[Len(msgs')].payload.decodable
           /\ msgs'[Len(msgs')].payload.symbol = <<self_symbol>>) =>
             /\ nEvents' = nEvents + 1
             /\ Len(heap') = Len(heap) + 1
             /\ hevent'[msgs'[Len(msgs')].handler].msg = Len(msgs')
       /\ \A i \in DOMAIN sent' : msgs'[sent'[i].msg].payload.decodable]_vars

\* bytes that did not decode came first; the next message was executed and
\* its outputs were published
C31_Witness ==
    /\ Len(msgs) = 2
    /\ ~msgs[1].payload.decodable
    /\ msgs[1].handler = msgs[2].handler
    /\ nEvents = 1
    /\ \E i \in DOMAIN sent : sent[i].msg = 2
    /\ hpc = [h \in Handlers |-> "idle"]

-----------------------------------------------------------------------------
(* Properties of the reference node, the Candle encodings and the topics   *)

\* the inputs that carry a candle of the data model
ValidInputs == {[k \in {"candle_1m"} |-> Candle_to_dict(c)] : c \in NodeCandles}

\* the number of calls among the first i that carried a valid candle
ValidUpTo(i) == Cardinality({j \in 1..i : returned[j].inputs \in ValidInputs})

\* C32: warm-up of the rolling classifier: with buffer_size N, a compute call
\* that carries one of the first N-1 valid candles returns an empty output,
\* and a call that carries the N-th or a later valid candle returns
\* {symbol, timestamp, timeframe, filters} whose filters have the keys
\* C1_body_direction .. CN_body_direction.
C32_WarmUp ==
    \A i \in DOMAIN returned :
        returned[i].inputs \in ValidInputs =>
            IF ValidUpTo(i) < buffer_size
            THEN returned[i].output = EmptyDict
            ELSE /\ DOMAIN returned[i].output = {"symbol", "timestamp", "timeframe", "filters"}
                 /\ \A k \in 1..buffer_size :
                        /\ <<k, "body_direction">> \in DOMAIN returned[i].output.filters
                        /\ returned[i].output.filters[<<k, "body_direction">>]
                               \in {"Bullish", "Bearish"}

\* two valid candles without output, a call without candle, then the third
\* valid candle with an output
C32_Witness ==
    /\ buffer_size = 3
    /\ Len(returned) = 4
    /\ returned[1].inputs \in ValidInputs /\ returned[1].output = EmptyDict
    /\ returned[2].inputs \in ValidInputs /\ returned[2].output = EmptyDict
    /\ returned[3].inputs \notin ValidInputs
    /\ returned[4].inputs \in ValidInputs /\ returned[4].output # EmptyDict

\* the last n items of a sequence
LastN(seq, n) == SubSeq(seq, Len(seq) - n + 1, Len(seq))

\* C40: state of the reference node: after any sequence of compute calls the
\* buffer is the last min(k, N) of the k valid candles received, in arrival
\* order; buffer_filled is true exactly when k >= N and never reverts; a call
\* without candle or with an unparsable candle returns an empty output and
\* leaves buffer and buffer_filled as they were.
C40_BufferState ==
    [][/\ Len(buffer') <= buffer_size
       /\ buffer' = LastN(received', Min(Len(received'), buffer_size))
       /\ buffer_filled' <=> (Len(received') >= buffer_size)
       /\ buffer_filled => buffer_filled'
       /\ (Len(returned') > Len(returned)) =>
             LET call == returned'[Len(returned')]
             IN IF call.inputs \in ValidInputs
                THEN received' = Append(received, Candle_from_dict(call.inputs["candle_1m"]).candle)
                ELSE /\ call.output = EmptyDict
                     /\ received' = received
                     /\ buffer' = buffer
                     /\ buffer_filled' = buffer_filled]_vars

\* a buffer of two that has seen three different candles and then an
\* unparsable one
C40_Witness ==
    /\ buffer_size = 2
    /\ Len(received) = 3
    /\ received[1] # received[2] /\ received[2] # received[3]
    /\ Len(returned) = 4
    /\ returned[4].inputs \notin ValidInputs
    /\ "candle_1m" \in DOMAIN returned[4].inputs
    /\ buffer = <<received[2], received[3]>>
    /\ buffer_filled

\* C33: Candle round trip: decoding what a candle of the data model encodes
\* to, through to_json/from_json and through to_dict/from_dict, succeeds and
\* gives a candle equal to it in symbol, timestamp, timeframe, open, high,
\* low, close, volume and tick_count.
C33_CandleRoundTrip ==
    decoded # None =>
        \A way \in {"from_json", "from_dict"} :
            /\ ~Val(decoded)[way].raised
            /\ \A f \in {"symbol", "timestamp", "timeframe", "open", "high", "low",
                         "close", "volume", "tick_count"} :
                   Val(decoded)[way].candle[f] = original[f]

\* a decoded candle whose volume and tick_count are not the defaults and
\* whose timestamp carries an offset
C33_Witness ==
    /\ decoded # None
    /\ original.volume = 2 /\ original.tick_count = 2
    /\ original.timestamp = DateTime(300, TRUE)
    /\ original.timeframe = "5m"
    /\ original.low < original.open /\ original.close < original.high

\* letters, digits, hyphen and underscore
KeptChars == {"E", "S", "1", "U+00E9", "-", "_"}

\* C34: Topics._sanitize maps a symbol to a string of the same length in
\* which each alphanumeric character, hyphen and underscore is kept and each
\* other character is an underscore; the result holds only such characters
\* (no ".", "*", ">" or space) and sanitizing it again changes nothing.
C34_SanitizeCharset ==
    sanitized # None =>
        LET out == Val(sanitized)[1]
            again == Val(sanitized)[2]
        IN /\ Len(out) = Len(name)
           /\ \A i \in DOMAIN name :
                  out[i] = IF name[i] \in KeptChars THEN name[i] ELSE "_"
           /\ \A i \in DOMAIN out : out[i] \in KeptChars /\ out[i] \notin {".", "*", ">", " "}
           /\ again = out

\* a symbol with a dot, a space and a kept letter has been sanitized
C34_Witness ==
    /\ sanitized # None
    /\ name = <<"U+00E9", ".", " ">>
    /\ Val(sanitized)[1] = <<"U+00E9", "_", "_">>

-----------------------------------------------------------------------------
(* Properties of the loader's conflict error                               *)

\* the files and the field an error message names
FilesNamed(err) == IF "files" \in DOMAIN err THEN err.files ELSE {}
FieldsNamed(err) == IF "field" \in DOMAIN err THEN {err.field} ELSE {}

\* C35: when two config files declare an indicator with the same id and
\* different params, and the load fails with the conflict error for that id,
\* the error names both files and the differing field.
C35_ConflictNamesFilesAndField ==
    \A e1, e2 \in IndicatorEntries :
        (/\ loadPc = "failed"
         /\ loadError.kind = "conflict"
         /\ e1[1] < e2[1]
         /\ Ind(e1).id = loadError.id /\ Ind(e2).id = loadError.id
         /\ Ind(e1).params # Ind(e2).params) =>
            /\ FilesNamed(loadError) = {e1[1], e2[1]}
            /\ FieldsNamed(loadError) = {"params"}

-----------------------------------------------------------------------------
(* Further properties of the DAG builder and executor                      *)

\* C36: build never raises the "topological sort failed" error, and the
\* topo_order of a built DAG holds every node id exactly once, also when a
\* node lists the same indicator source twice.
C36_TopoOrderPermutation ==
    /\ buildError.kind # "toposort"
    /\ dagPc = "built" =>
          /\ Len(topo_order) = Cardinality(NodeIds)
          /\ \A n \in NodeIds : Cardinality({i \in DOMAIN topo_order : topo_order[i] = n}) = 1

\* a built DAG in which a node has two inputs from the same indicator and a
\* third node depends on it
C36_Witness ==
    /\ dagPc = "built"
    /\ \E n \in NodeIds :
          /\ \E i, j \in DOMAIN adjacency[n] : i # j /\ adjacency[n][i] = adjacency[n][j]
          /\ \E m \in NodeIds \ {n} : n \in Range(adjacency[m])

\* C37: state ownership: an entry of node_states changes only in a compute
\* call of its own node, which is a node of the event's impacted set and is
\* handed that entry alone, or in a reset_node_state of that node; the entries
\* are the same at the start of an event as at the end of the one before.
C37_StateOwnership ==
    [][/\ \A n \in NodeIds :
            node_states'[n] # node_states[n] =>
               \/ /\ execPc = "running"
                  /\ Len(calls') = Len(calls) + 1
                  /\ calls'[Len(calls')].node = n
                  /\ n \in ImpactedSet(event)
                  /\ node_states'[n] =
                        compute(calls'[Len(calls')].inputs, node_states[n],
                                calls'[Len(calls')].outcome).state
                  /\ \A m \in NodeIds \ {n} : node_states'[m] = node_states[m]
               \/ /\ execPc = "idle" /\ execPc' = "idle"
                  /\ nEvents' = nEvents
                  /\ node_states' = [node_states EXCEPT ![n] = 0]
       /\ nEvents' # nEvents => node_states' = node_states]_vars

\* two events were executed; node k, whose only input is node m, ran in the
\* first event only, so m ran there too, and m was reset afterwards; the
\* second event ran other nodes
C37_Witness ==
    /\ nEvents = 2
    /\ execPc = "idle"
    /\ calls # << >>
    /\ \E m, k \in NodeIds :
          /\ Len(nodeDefs[k]) = 1
          /\ Dependencies(k) = {m}
          /\ k \notin Called
          /\ node_states[k] = 1
          /\ node_states[m] = 0

-----------------------------------------------------------------------------
(* Properties of the sink                                                  *)

\* C39: flush-failure recovery: a task whose database write failed is never
\* left waiting for the lock it holds itself (so the lock is released again
\* and later messages and periodic flushes go on), and no record of a failed
\* batch is lost: once stop() has returned, each such record is written, back
\* in its buffer, or in a batch that is being written.
C39_FlushFailureRecovers ==
    /\ \A t \in SinkTasks : sink_pc[t] = "requeue" => sink_lock # t
    /\ sink_pc["stop"] = "done" =>
          \A r \in failed :
              \/ r \in written
              \/ r \in Range(sink_buffer[r.kind])
              \/ \E t \in SinkTasks : sink_pc[t] = "write" /\ r \in Range(sink_batch[t])

-----------------------------------------------------------------------------
(* Further properties of the coordinator                                   *)

\* the (node_id, output) pairs handed to the bus for an event, and the
\* non-empty entries of the node_outputs its execute_event left
PairsSent(seq) ==
    {<<sent[i].node_id, sent[i].output>> : i \in {j \in DOMAIN sent : sent[j].seq = seq}}

NonEmptyOutputs(seq) ==
    {<<n, produced[seq][n]>> :
        n \in {m \in DOMAIN produced[seq] : produced[seq][m] # EmptyDict}}

\* C38: publish snapshot: whatever the other callback does while a callback
\* is suspended in a publish, the pairs published for an event are among the
\* non-empty entries its own execute_event produced, and once the callback is
\* over they are exactly those entries.
C38_PublishSnapshot ==
    \A seq \in 1..nEvents :
        /\ PairsSent(seq) \subseteq NonEmptyOutputs(seq)
        /\ Completed(seq) => PairsSent(seq) = NonEmptyOutputs(seq)

\* the first event's callback published, was suspended while the second
\* event was executed and published by the other callback, and then published
\* its remaining output; a node ran in both events with different outputs
C38_Witness ==
    /\ nEvents = 2
    /\ hpc = [h \in Handlers |-> "idle"]
    /\ \E i, j, k \in DOMAIN sent :
          /\ i < j /\ j < k
          /\ sent[i].seq = 1 /\ sent[j].seq = 2 /\ sent[k].seq = 1
    /\ \E n \in DOMAIN produced[1] \cap DOMAIN produced[2] :
          /\ produced[1][n] # EmptyDict
          /\ produced[2][n] # EmptyDict
          /\ produced[1][n] # produced[2][n]

====
